---------------------------- MODULE Spec2Model ----------------------------
(***************************************************************************)
(* A model of json-workbench: the path-addressed mutation layer            *)
(* (utils/objectPath.ts), the batch transform engine of the data worker,   *)
(* the file store (store/fileStore.ts) with its undo history and filter    *)
(* engine, and the worker client's request/response correlation.           *)
(*                                                                         *)
(* JavaScript values are tagged records [t, v]:                            *)
(*   undef, null, bool, num, str (a sequence of one-character strings),    *)
(*   obj (a sequence of <<key, value>> pairs in JavaScript property order) *)
(*   arr (elements v, plus p: the non-index properties an assignment such  *)
(*   as next[NaN] = x leaves on the array object).                         *)
(***************************************************************************)
EXTENDS Integers, Sequences, FiniteSets, TLC

VARIABLES
  \* utils/objectPath.ts exercised on one (target, path, value) triple
  pathPhase, pathTarget, pathArg, pathValue, pathResult, pathRead,
  \* escapeStringValue and unescapeStringValue exercised on one string
  textPhase, textIn, textEscaped, textBack,
  \* buildSchemaTree applied to one sample list
  schemaPhase, schemaSamples, schemaMaxDepth, schemaTree,
  \* dataWorker applyBatch exercised on one (data, action) pair
  batchPhase, batchData, batchAction, batchOut, batchWarnings, batchAgain,
  \* store/fileStore.ts
  files, activeFileId, currentIndex, history, searchQuery, filterGroups,
  filteredIndices, lastOp,
  \* utils/workerClient.ts, the worker's onmessage and BatchPanel.executeBatch
  pending, progressHandlers, workerInbox, clientInbox, usedIds, resolvedBy,
  progressSeen, loading, jobs

pathVars == <<pathPhase, pathTarget, pathArg, pathValue, pathResult, pathRead>>
textVars == <<textPhase, textIn, textEscaped, textBack>>
schemaVars == <<schemaPhase, schemaSamples, schemaMaxDepth, schemaTree>>
batchVars == <<batchPhase, batchData, batchAction, batchOut, batchWarnings, batchAgain>>
storeVars == <<files, activeFileId, currentIndex, history, searchQuery,
               filterGroups, filteredIndices, lastOp>>
workerVars == <<pending, progressHandlers, workerInbox, clientInbox, usedIds,
                resolvedBy, progressSeen, loading, jobs>>
vars == <<pathVars, textVars, schemaVars, batchVars, storeVars, workerVars>>

-----------------------------------------------------------------------------
(* JavaScript values *)

Undef == [t |-> "undef", v |-> <<>>]
Null == [t |-> "null", v |-> <<>>]
Bool(b) == [t |-> "bool", v |-> b]
Num(n) == [t |-> "num", v |-> n]
Str(s) == [t |-> "str", v |-> s]
Obj(entries) == [t |-> "obj", v |-> entries]
ArrP(xs, props) == [t |-> "arr", v |-> xs, p |-> props]
Arr(xs) == ArrP(xs, <<>>)
\* Number(x) of a string that is not numeric
NaN == [t |-> "nan", v |-> <<>>]

IsArray(x) == x.t = "arr"
\* x && typeof x === "object" && !Array.isArray(x)
IsPlainObject(x) == x.t = "obj"
\* x !== null && typeof x === "object"
IsContainer(x) == x.t \in {"obj", "arr"}

\* an inclusive range as a sequence, and a fold-free map over a sequence
SeqMap(Op(_), s) == [i \in 1..Len(s) |-> Op(s[i])]
SelectIdx(s, Test(_)) ==
  LET F[i \in 0..Len(s)] ==
        IF i = 0 THEN <<>>
        ELSE IF Test(i) THEN Append(F[i - 1], i) ELSE F[i - 1]
  IN F[Len(s)]

Digits == <<"0", "1", "2", "3", "4", "5", "6", "7", "8", "9">>
IsDigit(c) == \E d \in 1..10 : Digits[d] = c
DigitVal(c) == (CHOOSE d \in 1..10 : Digits[d] = c) - 1

\* String(n) for an integer n
RECURSIVE NatToStr(_)
NatToStr(n) == IF n < 10 THEN <<Digits[n + 1]>>
               ELSE NatToStr(n \div 10) \o <<Digits[(n % 10) + 1]>>
NumToStr(n) == IF n < 0 THEN <<"-">> \o NatToStr(-n) ELSE NatToStr(n)

\* Number(s) for a string s made of decimal digits ("" is 0); any other string
\* of the model's alphabet is NaN
RECURSIVE DigitsToNat(_, _)
DigitsToNat(s, acc) == IF s = <<>> THEN acc
                       ELSE DigitsToNat(Tail(s), acc * 10 + DigitVal(Head(s)))
StrToNumber(s) == IF \A i \in 1..Len(s) : IsDigit(s[i]) THEN Num(DigitsToNat(s, 0))
                  ELSE NaN

\* a canonical array index as a property name: "0", "1", "12", not "01" or ""
IsIndexKey(k) == /\ k # <<>>
                 /\ \A i \in 1..Len(k) : IsDigit(k[i])
                 /\ (Len(k) > 1 => k[1] # "0")

-----------------------------------------------------------------------------
(* Objects: property lookup, assignment and deletion in JavaScript's own    *)
(* property order (index-like keys ascending, then the others by insertion) *)

ObjKeys(o) == [i \in 1..Len(o.v) |-> o.v[i][1]]
ObjHas(o, k) == \E i \in 1..Len(o.v) : o.v[i][1] = k
ObjGet(o, k) == IF ObjHas(o, k)
                THEN o.v[CHOOSE i \in 1..Len(o.v) : o.v[i][1] = k][2]
                ELSE Undef

\* where a new key goes among the entries
InsertPos(es, k) ==
  IF IsIndexKey(k)
  THEN Cardinality({i \in 1..Len(es) :
                      IsIndexKey(es[i][1])
                      /\ DigitsToNat(es[i][1], 0) < DigitsToNat(k, 0)}) + 1
  ELSE Len(es) + 1

\* o[k] = x
ObjPut(o, k, x) ==
  IF ObjHas(o, k)
  THEN Obj([i \in 1..Len(o.v) |-> IF o.v[i][1] = k THEN <<k, x>> ELSE o.v[i]])
  ELSE LET pos == InsertPos(o.v, k)
       IN Obj(SubSeq(o.v, 1, pos - 1) \o << <<k, x>> >> \o SubSeq(o.v, pos, Len(o.v)))

\* delete o[k]
ObjDelete(o, k) == Obj(SelectSeq(o.v, LAMBDA e : e[1] # k))

-----------------------------------------------------------------------------
(* utils/objectPath.ts *)

\* String(part) of a path part
PartKey(part) == IF part.t = "num" THEN NumToStr(part.v) ELSE part.v
\* typeof part === "number" ? part : Number(part)
PartIndex(part) == IF part.t = "num" THEN part ELSE StrToNumber(part.v)

\* arr[index] for index a number or NaN
ArrRead(a, index) ==
  IF index.t = "num" /\ index.v >= 0
  THEN IF index.v < Len(a.v) THEN a.v[index.v + 1] ELSE Undef
  ELSE ObjGet(Obj(a.p), IF index.t = "nan" THEN <<"N", "a", "N">> ELSE NumToStr(index.v))

\* arr[index] = x: writing past the end leaves holes, which read as undefined
ArrWrite(a, index, x) ==
  IF index.t = "num" /\ index.v >= 0
  THEN ArrP([i \in 1..(IF index.v + 1 > Len(a.v) THEN index.v + 1 ELSE Len(a.v)) |->
               IF i = index.v + 1 THEN x
               ELSE IF i <= Len(a.v) THEN a.v[i] ELSE Undef],
            a.p)
  ELSE ArrP(a.v, ObjPut(Obj(a.p),
                        IF index.t = "nan" THEN <<"N", "a", "N">> ELSE NumToStr(index.v),
                        x).v)

\* [...target]: the elements, without the non-index properties
ArrSpread(a) == Arr(a.v)

RECURSIVE setAtPath(_, _, _)
\* a setAtPath that writes through containers only and leaves any other
\* target as it is
setAtPath_ContainersOnly(target, path, value) ==
  IF path = <<>> THEN value
  ELSE IF IsArray(target)
  THEN ArrWrite(ArrSpread(target), PartIndex(Head(path)),
                setAtPath(ArrRead(ArrSpread(target), PartIndex(Head(path))), Tail(path), value))
  ELSE IF IsPlainObject(target)
  THEN ObjPut(target, PartKey(Head(path)),
              setAtPath(ObjGet(target, PartKey(Head(path))), Tail(path), value))
  ELSE target

\* a setAtPath that materializes a mapping whatever the part is
setAtPath_AlwaysMapping(target, path, value) ==
  IF path = <<>> THEN value
  ELSE IF IsArray(target)
  THEN ArrWrite(ArrSpread(target), PartIndex(Head(path)),
                setAtPath(ArrRead(ArrSpread(target), PartIndex(Head(path))), Tail(path), value))
  ELSE IF IsPlainObject(target)
  THEN ObjPut(target, PartKey(Head(path)),
              setAtPath(ObjGet(target, PartKey(Head(path))), Tail(path), value))
  ELSE setAtPath(Obj(<<>>), path, value)

\* a setAtPath that deletes the key before it assigns it, so that the key an
\* object already has moves behind its other keys
setAtPath_MovesKeyLast(target, path, value) ==
  IF path = <<>> THEN value
  ELSE IF IsArray(target)
  THEN ArrWrite(ArrSpread(target), PartIndex(Head(path)),
                setAtPath(ArrRead(ArrSpread(target), PartIndex(Head(path))), Tail(path), value))
  ELSE IF IsPlainObject(target)
  THEN ObjPut(ObjDelete(target, PartKey(Head(path))), PartKey(Head(path)),
              setAtPath(ObjGet(target, PartKey(Head(path))), Tail(path), value))
  ELSE setAtPath(IF Head(path).t = "num" THEN Arr(<<>>) ELSE Obj(<<>>), path, value)

setAtPath(target, path, value) ==
  IF path = <<>> THEN value
  ELSE LET head == Head(path)
           rest == Tail(path)
       IN IF IsArray(target)
          THEN LET index == PartIndex(head)
                   next == ArrSpread(target)
               IN ArrWrite(next, index, setAtPath(ArrRead(next, index), rest, value))
          ELSE IF IsPlainObject(target)
          THEN ObjPut(target, PartKey(head),
                      setAtPath(ObjGet(target, PartKey(head)), rest, value))
          ELSE setAtPath(IF head.t = "num" THEN Arr(<<>>) ELSE Obj(<<>>), path, value)

getStep(acc, part) ==
  IF acc.t \in {"undef", "null"} THEN Undef
  ELSE IF IsArray(acc) THEN ArrRead(acc, PartIndex(part))
  ELSE IF IsPlainObject(acc) THEN ObjGet(acc, PartKey(part))
  ELSE Undef

RECURSIVE getAtPath(_, _)
getAtPath(target, path) ==
  IF path = <<>> THEN target
  ELSE getAtPath(getStep(target, Head(path)), Tail(path))

-----------------------------------------------------------------------------
(* Strings (sequences of characters) *)

Upper == <<"A", "B", "C", "D", "E", "F", "G", "H", "I", "J", "K", "L", "M",
           "N", "O", "P", "Q", "R", "S", "T", "U", "V", "W", "X", "Y", "Z">>
Lower == <<"a", "b", "c", "d", "e", "f", "g", "h", "i", "j", "k", "l", "m",
           "n", "o", "p", "q", "r", "s", "t", "u", "v", "w", "x", "y", "z">>
LowerOf == [c \in {Upper[i] : i \in 1..26} |-> Lower[CHOOSE i \in 1..26 : Upper[i] = c]]
LowerChar(c) == IF c \in DOMAIN LowerOf THEN LowerOf[c] ELSE c
\* s.toLowerCase()
ToLower(s) == [i \in 1..Len(s) |-> LowerChar(s[i])]

\* s.startsWith(p), s.endsWith(p), s.includes(q)
StartsWith(s, p) == Len(p) <= Len(s) /\ SubSeq(s, 1, Len(p)) = p
EndsWith(s, p) == Len(p) <= Len(s) /\ SubSeq(s, Len(s) - Len(p) + 1, Len(s)) = p
Includes(s, q) == \E i \in 1..(Len(s) - Len(q) + 1) : SubSeq(s, i, i + Len(q) - 1) = q

IsSpace(c) == c \in {" ", "\n", "\t", "\r"}
RECURSIVE TrimStart(_)
TrimStart(s) == IF s # <<>> /\ IsSpace(Head(s)) THEN TrimStart(Tail(s)) ELSE s
RECURSIVE TrimEnd(_)
TrimEnd(s) == IF s # <<>> /\ IsSpace(s[Len(s)]) THEN TrimEnd(SubSeq(s, 1, Len(s) - 1)) ELSE s
\* s.trim()
Trim(s) == TrimEnd(TrimStart(s))

\* s.split(c): the pieces between the occurrences of the character c
RECURSIVE SplitAcc(_, _, _, _)
SplitAcc(s, c, cur, out) ==
  IF s = <<>> THEN Append(out, cur)
  ELSE IF Head(s) = c THEN SplitAcc(Tail(s), c, <<>>, Append(out, cur))
  ELSE SplitAcc(Tail(s), c, Append(cur, Head(s)), out)
Split(s, c) == SplitAcc(s, c, <<>>, <<>>)

\* parts.join(sep)
RECURSIVE Join(_, _)
Join(parts, sep) ==
  IF parts = <<>> THEN <<>>
  ELSE IF Len(parts) = 1 THEN parts[1]
  ELSE parts[1] \o sep \o Join(Tail(parts), sep)

\* s.replace(/c/g, r) for a character c and a string r
RECURSIVE ReplaceAll(_, _, _)
ReplaceAll(s, c, r) ==
  IF s = <<>> THEN <<>>
  ELSE (IF Head(s) = c THEN r ELSE <<Head(s)>>) \o ReplaceAll(Tail(s), c, r)

\* the own enumerable properties of a container, as <<key, value>> pairs
EntriesOf(x) ==
  IF IsArray(x) THEN [i \in 1..Len(x.v) |-> <<NatToStr(i - 1), x.v[i]>>] \o x.p
  ELSE x.v

\* the two-character escapes JSON.stringify writes inside a string
JsonEscapeChar(c) ==
  IF c = "\"" THEN <<"\\", "\"">>
  ELSE IF c = "\\" THEN <<"\\", "\\">>
  ELSE IF c = "\n" THEN <<"\\", "n">>
  ELSE IF c = "\r" THEN <<"\\", "r">>
  ELSE IF c = "\t" THEN <<"\\", "t">>
  ELSE <<c>>
RECURSIVE JsonQuoteBody(_)
JsonQuoteBody(s) == IF s = <<>> THEN <<>>
                    ELSE JsonEscapeChar(Head(s)) \o JsonQuoteBody(Tail(s))
JsonQuote(s) == <<"\"">> \o JsonQuoteBody(s) \o <<"\"">>

\* JSON.stringify(x) of a value that is not undefined: an undefined property
\* is left out, an undefined element is written null, an array's non-index
\* properties are left out
RECURSIVE JsonStringify(_)
RECURSIVE JsonMembers(_, _)
JsonMembers(es, isArr) ==
  IF es = <<>> THEN <<>>
  ELSE LET e == Head(es)
           rest == JsonMembers(Tail(es), isArr)
       IN IF isArr
          THEN << (IF e[2].t = "undef" THEN <<"n", "u", "l", "l">>
                   ELSE JsonStringify(e[2])) >> \o rest
          ELSE IF e[2].t = "undef" THEN rest
          ELSE << JsonQuote(e[1]) \o <<":">> \o JsonStringify(e[2]) >> \o rest
JsonStringify(x) ==
  IF x.t = "null" THEN <<"n", "u", "l", "l">>
  ELSE IF x.t = "bool" THEN (IF x.v THEN <<"t", "r", "u", "e">> ELSE <<"f", "a", "l", "s", "e">>)
  ELSE IF x.t = "num" THEN NumToStr(x.v)
  ELSE IF x.t = "str" THEN JsonQuote(x.v)
  ELSE IF x.t = "arr"
  THEN <<"[">> \o Join(JsonMembers([i \in 1..Len(x.v) |-> <<NatToStr(i - 1), x.v[i]>>], TRUE), <<",">>) \o <<"]">>
  ELSE <<"{">> \o Join(JsonMembers(x.v, FALSE), <<",">>) \o <<"}">>

\* String(x)
RECURSIVE JsString(_)
JsString(x) ==
  IF x.t = "undef" THEN <<"u", "n", "d", "e", "f", "i", "n", "e", "d">>
  ELSE IF x.t = "null" THEN <<"n", "u", "l", "l">>
  ELSE IF x.t = "bool" THEN (IF x.v THEN <<"t", "r", "u", "e">> ELSE <<"f", "a", "l", "s", "e">>)
  ELSE IF x.t = "num" THEN NumToStr(x.v)
  ELSE IF x.t = "str" THEN x.v
  ELSE IF x.t = "arr"
  THEN Join([i \in 1..Len(x.v) |->
               IF x.v[i].t \in {"undef", "null"} THEN <<>> ELSE JsString(x.v[i])], <<",">>)
  ELSE <<"[", "o", "b", "j", "e", "c", "t", " ", "O", "b", "j", "e", "c", "t", "]">>

\* Number(x): a number, or NaN
JsNumber(x) ==
  IF x.t = "undef" THEN NaN
  ELSE IF x.t = "null" THEN Num(0)
  ELSE IF x.t = "bool" THEN Num(IF x.v THEN 1 ELSE 0)
  ELSE IF x.t = "num" THEN x
  ELSE IF x.t = "str" THEN StrToNumber(Trim(x.v))
  ELSE IF x.t = "arr" THEN StrToNumber(Trim(JsString(x)))
  ELSE NaN

\* Boolean(x)
JsTruthy(x) ==
  IF x.t \in {"undef", "null"} THEN FALSE
  ELSE IF x.t = "bool" THEN x.v
  ELSE IF x.t = "num" THEN x.v # 0
  ELSE IF x.t = "str" THEN x.v # <<>>
  ELSE TRUE

-----------------------------------------------------------------------------
(* jsonParser.parse (json-bigint, storeAsString): a recursive-descent parser *)
(* over the characters of the model's alphabet. Numbers are integers.        *)

ParseFail == [ok |-> FALSE, val |-> Undef, pos |-> 0]
ParseOk(x, i) == [ok |-> TRUE, val |-> x, pos |-> i]

RECURSIVE SkipWs(_, _)
SkipWs(s, i) == IF i <= Len(s) /\ IsSpace(s[i]) THEN SkipWs(s, i + 1) ELSE i

RECURSIVE ParseDigits(_, _, _)
ParseDigits(s, i, acc) ==
  IF i <= Len(s) /\ IsDigit(s[i]) THEN ParseDigits(s, i + 1, acc * 10 + DigitVal(s[i]))
  ELSE [val |-> acc, pos |-> i]

ParseNumber(s, i) ==
  LET neg == s[i] = "-"
      start == IF neg THEN i + 1 ELSE i
  IN IF start > Len(s) \/ ~IsDigit(s[start]) THEN ParseFail
     ELSE LET d == ParseDigits(s, start, 0)
          IN IF d.pos <= Len(s) /\ s[d.pos] \in {".", "e", "E"} THEN ParseFail
             ELSE ParseOk(Num(IF neg THEN 0 - d.val ELSE d.val), d.pos)

UnescapeJsonChar(c) ==
  IF c = "n" THEN "\n" ELSE IF c = "t" THEN "\t" ELSE IF c = "r" THEN "\r" ELSE c

RECURSIVE ParseString(_, _, _)
ParseString(s, i, acc) ==
  IF i > Len(s) THEN ParseFail
  ELSE IF s[i] = "\"" THEN ParseOk(Str(acc), i + 1)
  ELSE IF s[i] = "\\"
  THEN IF i + 1 <= Len(s) /\ s[i + 1] \in {"\"", "\\", "/", "n", "t", "r"}
       THEN ParseString(s, i + 2, Append(acc, UnescapeJsonChar(s[i + 1])))
       ELSE ParseFail
  ELSE ParseString(s, i + 1, Append(acc, s[i]))

ParseLiteral(s, i, word, x) ==
  IF i + Len(word) - 1 <= Len(s) /\ SubSeq(s, i, i + Len(word) - 1) = word
  THEN ParseOk(x, i + Len(word))
  ELSE ParseFail

RECURSIVE ParseValue(_, _)
RECURSIVE ParseElements(_, _, _)
RECURSIVE ParseMembers(_, _, _)

\* after "[" or ",": the next element, then "," or "]"
ParseElements(s, i, acc) ==
  LET r == ParseValue(s, i)
  IN IF ~r.ok THEN ParseFail
     ELSE LET j == SkipWs(s, r.pos)
          IN IF j > Len(s) THEN ParseFail
             ELSE IF s[j] = "]" THEN ParseOk(Arr(Append(acc, r.val)), j + 1)
             ELSE IF s[j] = "," THEN ParseElements(s, j + 1, Append(acc, r.val))
             ELSE ParseFail

\* after "{" or ",": a quoted key, ":", a value, then "," or "}"
ParseMembers(s, i, acc) ==
  LET j == SkipWs(s, i)
  IN IF j > Len(s) \/ s[j] # "\"" THEN ParseFail
     ELSE LET k == ParseString(s, j + 1, <<>>)
          IN IF ~k.ok THEN ParseFail
             ELSE LET c == SkipWs(s, k.pos)
                  IN IF c > Len(s) \/ s[c] # ":" THEN ParseFail
                     ELSE LET r == ParseValue(s, c + 1)
                          IN IF ~r.ok THEN ParseFail
                             ELSE LET e == SkipWs(s, r.pos)
                                      next == ObjPut(acc, k.val.v, r.val)
                                  IN IF e > Len(s) THEN ParseFail
                                     ELSE IF s[e] = "}" THEN ParseOk(next, e + 1)
                                     ELSE IF s[e] = "," THEN ParseMembers(s, e + 1, next)
                                     ELSE ParseFail

ParseValue(s, i) ==
  LET j == SkipWs(s, i)
  IN IF j > Len(s) THEN ParseFail
     ELSE IF s[j] = "{"
     THEN LET c == SkipWs(s, j + 1)
          IN IF c <= Len(s) /\ s[c] = "}" THEN ParseOk(Obj(<<>>), c + 1)
             ELSE ParseMembers(s, c, Obj(<<>>))
     ELSE IF s[j] = "["
     THEN LET c == SkipWs(s, j + 1)
          IN IF c <= Len(s) /\ s[c] = "]" THEN ParseOk(Arr(<<>>), c + 1)
             ELSE ParseElements(s, c, <<>>)
     ELSE IF s[j] = "\"" THEN ParseString(s, j + 1, <<>>)
     ELSE IF s[j] = "-" \/ IsDigit(s[j]) THEN ParseNumber(s, j)
     ELSE IF s[j] = "t" THEN ParseLiteral(s, j, <<"t", "r", "u", "e">>, Bool(TRUE))
     ELSE IF s[j] = "f" THEN ParseLiteral(s, j, <<"f", "a", "l", "s", "e">>, Bool(FALSE))
     ELSE IF s[j] = "n" THEN ParseLiteral(s, j, <<"n", "u", "l", "l">>, Null)
     ELSE ParseFail

\* the whole text must be one value: [ok, val]
JsonParse(s) ==
  LET r == ParseValue(s, 1)
  IN IF r.ok /\ SkipWs(s, r.pos) > Len(s) THEN r ELSE ParseFail

-----------------------------------------------------------------------------
(* The data worker's batch transform engine (workers/dataWorker.ts)          *)
(*                                                                           *)
(* A BatchAction is a record with its kind and that kind's fields. A field   *)
(* the type marks optional holds Undef when absent; a key list is KeyList.   *)

KeyList(ks) == [t |-> "keys", v |-> ks]
\* maxDepth = Infinity
Infinity == [t |-> "inf", v |-> <<>>]

\* x ?? d
OrElse(x, d) == IF x.t \in {"undef", "null"} THEN d ELSE x

\* action.targetKeys ?? (action.key ? [action.key] : [])
TargetKeysOf(targetKeys, key) ==
  IF targetKeys.t = "keys" THEN targetKeys.v
  ELSE IF JsTruthy(key) THEN <<key.v>> ELSE <<>>

\* an escape that leaves the backslash alone
escapeStringValue_KeepsBackslash(str) ==
  ReplaceAll(ReplaceAll(ReplaceAll(ReplaceAll(str,
    "\"", <<"\\", "\"">>),
    "\n", <<"\\", "n">>),
    "\r", <<"\\", "r">>),
    "\t", <<"\\", "t">>)

escapeStringValue(str) ==
  ReplaceAll(ReplaceAll(ReplaceAll(ReplaceAll(ReplaceAll(str,
    "\\", <<"\\", "\\">>),
    "\"", <<"\\", "\"">>),
    "\n", <<"\\", "n">>),
    "\r", <<"\\", "r">>),
    "\t", <<"\\", "t">>)

\* the character a known escape letter stands for
UnescapeTarget(c) ==
  IF c = "n" THEN "\n" ELSE IF c = "t" THEN "\t" ELSE IF c = "r" THEN "\r" ELSE c

\* a scan that takes the character after an unknown escape with the backslash
RECURSIVE unescapeScan_ConsumesPair(_, _, _)
unescapeScan_ConsumesPair(str, i, result) ==
  IF i > Len(str) THEN result
  ELSE IF str[i] = "\\" /\ i + 1 <= Len(str)
  THEN IF str[i + 1] \in {"n", "t", "r", "\"", "'", "\\"}
       THEN unescapeScan_ConsumesPair(str, i + 2, Append(result, UnescapeTarget(str[i + 1])))
       ELSE unescapeScan_ConsumesPair(str, i + 2, Append(result, str[i]))
  ELSE unescapeScan_ConsumesPair(str, i + 1, Append(result, str[i]))

RECURSIVE unescapeScan(_, _, _)
unescapeScan(str, i, result) ==
  IF i > Len(str) THEN result
  ELSE IF str[i] = "\\" /\ i + 1 <= Len(str)
  THEN IF str[i + 1] \in {"n", "t", "r", "\"", "'", "\\"}
       THEN unescapeScan(str, i + 2, Append(result, UnescapeTarget(str[i + 1])))
       ELSE unescapeScan(str, i + 1, Append(result, str[i]))
  ELSE unescapeScan(str, i + 1, Append(result, str[i]))
unescapeStringValue(str) == unescapeScan(str, 1, <<>>)

RECURSIVE smartParseValue(_)
RECURSIVE smartParseEntries(_, _)
\* a parse that returns what the parser gave without parsing the strings in it
smartParseValue_OneLevel(value) ==
  IF value.t = "str"
  THEN LET trimmed == Trim(value.v)
       IN IF \/ StartsWith(trimmed, <<"{">>) /\ EndsWith(trimmed, <<"}">>)
             \/ StartsWith(trimmed, <<"[">>) /\ EndsWith(trimmed, <<"]">>)
          THEN LET parsed == JsonParse(trimmed)
               IN IF parsed.ok /\ IsContainer(parsed.val) THEN parsed.val ELSE value
          ELSE value
  ELSE IF IsArray(value) THEN Arr([i \in 1..Len(value.v) |-> smartParseValue(value.v[i])])
  ELSE IF IsPlainObject(value) THEN smartParseEntries(value.v, Obj(<<>>))
  ELSE value

smartParseEntries(es, result) ==
  IF es = <<>> THEN result
  ELSE smartParseEntries(Tail(es), ObjPut(result, Head(es)[1], smartParseValue(Head(es)[2])))
smartParseValue(value) ==
  IF value.t = "str"
  THEN LET trimmed == Trim(value.v)
       IN IF \/ StartsWith(trimmed, <<"{">>) /\ EndsWith(trimmed, <<"}">>)
             \/ StartsWith(trimmed, <<"[">>) /\ EndsWith(trimmed, <<"]">>)
          THEN LET parsed == JsonParse(trimmed)
               IN IF parsed.ok /\ IsContainer(parsed.val)
                  THEN smartParseValue(parsed.val)
                  ELSE value
          ELSE value
  ELSE IF IsArray(value) THEN Arr([i \in 1..Len(value.v) |-> smartParseValue(value.v[i])])
  ELSE IF IsPlainObject(value) THEN smartParseEntries(value.v, Obj(<<>>))
  ELSE value

isEAVObject(obj) ==
  /\ IsPlainObject(obj)
  /\ ObjHas(obj, <<"l", "a", "b", "e", "l">>)
  /\ ObjHas(obj, <<"v", "a", "l", "u", "e">>)
  /\ ObjGet(obj, <<"l", "a", "b", "e", "l">>).t = "str"
  /\ Len(ObjGet(obj, <<"l", "a", "b", "e", "l">>).v) > 0

\* a depth test that lets the recursion go one level further
DepthReached_OneLate(currentDepth, maxDepth) ==
  maxDepth.t = "num" /\ currentDepth > maxDepth.v

\* currentDepth >= maxDepth
DepthReached(currentDepth, maxDepth) == maxDepth.t = "num" /\ currentDepth >= maxDepth.v

\* a key join that leaves the separator out
JoinKey_NoSeparator(prefix, key) == prefix \o key

\* prefix ? `${prefix}.${key}` : key
JoinKey(prefix, key) == IF prefix # <<>> THEN prefix \o <<".">> \o key ELSE key

RECURSIVE flattenObject(_, _, _, _, _, _)
RECURSIVE flattenEntries(_, _, _, _, _, _)
\* keys.forEach of flattenObject
flattenEntries(es, prefix, result, maxDepth, currentDepth, useSmartEAV) ==
  IF es = <<>> THEN result
  ELSE LET value == Head(es)[2]
           nextKey == JoinKey(prefix, Head(es)[1])
       IN flattenEntries(Tail(es), prefix,
            IF IsContainer(value)
            THEN flattenObject(value, nextKey, result, maxDepth, currentDepth + 1, useSmartEAV)
            ELSE ObjPut(result, nextKey, value),
            maxDepth, currentDepth, useSmartEAV)
flattenObject(obj, prefix, result, maxDepth, currentDepth, useSmartEAV) ==
  IF ~IsContainer(obj)
  THEN (IF prefix # <<>> THEN ObjPut(result, prefix, obj) ELSE result)
  ELSE IF DepthReached(currentDepth, maxDepth) THEN ObjPut(result, prefix, obj)
  ELSE IF useSmartEAV /\ isEAVObject(obj)
  THEN LET eavLabel == ObjGet(obj, <<"l", "a", "b", "e", "l">>).v
           eavValue == ObjGet(obj, <<"v", "a", "l", "u", "e">>)
           cleanLabel == ReplaceAll(Trim(eavLabel), ".", <<"_">>)
           eavKey == JoinKey(prefix, cleanLabel)
       IN IF ~IsContainer(eavValue) THEN ObjPut(result, eavKey, eavValue)
          ELSE flattenObject(eavValue, eavKey, result, maxDepth, currentDepth + 1, useSmartEAV)
  ELSE IF EntriesOf(obj) = <<>>
  THEN (IF prefix # <<>> THEN ObjPut(result, prefix, obj) ELSE result)
  ELSE flattenEntries(EntriesOf(obj), prefix, result, maxDepth, currentDepth, useSmartEAV)

\* record[segment] for a container and a property name
PropRead(x, k) ==
  IF IsArray(x)
  THEN IF IsIndexKey(k) THEN ArrRead(x, Num(DigitsToNat(k, 0))) ELSE ObjGet(Obj(x.p), k)
  ELSE ObjGet(x, k)

RECURSIVE getValueBySegments(_, _)
getValueBySegments(current, segments) ==
  IF segments = <<>> THEN current
  ELSE IF ~IsContainer(current) THEN Undef
  ELSE getValueBySegments(PropRead(current, Head(segments)), Tail(segments))
getValueByPath(target, path) ==
  IF path = <<>> \/ target.t \in {"null", "undef"} THEN Undef
  ELSE getValueBySegments(target, SelectSeq(Split(path, "."), LAMBDA seg : seg # <<>>))

\* what one record's case of applyBatch returns and the warnings it pushed
Out(rec, warns) == [rec |-> rec, warns |-> warns]

addFieldCase(record, action) ==
  LET value == IF action.mode = "copy" /\ JsTruthy(action.fromKey)
               THEN ObjGet(record, action.fromKey.v)
               ELSE OrElse(action.value, Str(<<>>))
  IN Out(ObjPut(record, action.key, value), <<>>)

RECURSIVE DeleteKeys(_, _)
DeleteKeys(o, keys) == IF keys = <<>> THEN o
                       ELSE DeleteKeys(ObjDelete(o, Head(keys)), Tail(keys))
deleteFieldCase(record, action) == Out(DeleteKeys(record, action.keys), <<>>)

renameFieldCase(record, action) ==
  IF ~ObjHas(record, action.from) THEN Out(record, <<>>)
  ELSE Out(ObjDelete(ObjPut(record, action.to, ObjGet(record, action.from)), action.from), <<>>)

updateValueCase(record, action) ==
  IF ~ObjHas(record, action.key) THEN Out(record, <<>>)
  ELSE LET current == ObjGet(record, action.key)
       IN IF action.mode = "set"
          THEN Out(ObjPut(record, action.key, OrElse(action.value, Str(<<>>))), <<>>)
          ELSE IF current.t = "str"
          THEN Out(ObjPut(record, action.key,
                          Str(OrElse(action.prefix, Str(<<>>)).v \o current.v
                              \o OrElse(action.suffix, Str(<<>>)).v)), <<>>)
          ELSE Out(record, <<>>)

\* source.find(...): the first element that is an object or array and whose
\* value at matchKey is strictly equal to matchValue, or Undef
FindMatched(source, matchKey, matchValue) ==
  LET hits == {i \in 1..Len(source.v) :
                 /\ IsContainer(source.v[i])
                 /\ getValueByPath(source.v[i], matchKey) = Str(matchValue)}
  IN IF hits = {} THEN Undef
     ELSE source.v[CHOOSE i \in hits : \A j \in hits : i <= j]

extractByConditionCase(record, action) ==
  LET source == getValueByPath(record, action.sourceField)
  IN IF ~IsArray(source) THEN Out(record, <<>>)
     ELSE LET matched == FindMatched(source, action.matchKey, action.matchValue)
          IN IF matched.t = "undef" THEN Out(record, <<>>)
             ELSE LET extracted == getValueByPath(matched, action.extractKey)
                  IN IF extracted.t = "undef" THEN Out(record, <<>>)
                     ELSE Out(ObjPut(record, action.targetField, extracted), <<>>)

\* sourceFields.forEach: targetObject[field] = next[field]; delete next[field]
RECURSIVE NestMove(_, _, _)
NestMove(fields, next, targetObject) ==
  IF fields = <<>> THEN [next |-> next, targetObject |-> targetObject]
  ELSE NestMove(Tail(fields), ObjDelete(next, Head(fields)),
                ObjPut(targetObject, Head(fields), ObjGet(next, Head(fields))))

nestFieldsCase(record, action) ==
  IF action.targetField = <<>> \/ Len(action.sourceFields) = 0 THEN Out(record, <<>>)
  ELSE LET existing == ObjGet(record, action.targetField)
           start == IF IsPlainObject(existing) THEN existing ELSE Obj(<<>>)
           moved == NestMove(action.sourceFields, record, start)
       IN Out(ObjPut(moved.next, action.targetField, moved.targetObject), <<>>)

\* a typeConvert that stores the coerced number even when it is not a number
typeConvertCase_StoresNaN(record, action) ==
  IF ~ObjHas(record, action.key) THEN Out(record, <<>>)
  ELSE LET current == ObjGet(record, action.key)
       IN IF action.target = "string"
          THEN Out(ObjPut(record, action.key, Str(JsString(current))), <<>>)
          ELSE IF action.target = "number"
          THEN Out(ObjPut(record, action.key, JsNumber(current)),
                   IF JsNumber(current).t = "nan"
                   THEN << [warning |-> "cannotConvertToNumber",
                            value |-> JsString(current)] >>
                   ELSE <<>>)
          ELSE Out(ObjPut(record, action.key, Bool(JsTruthy(current))), <<>>)

typeConvertCase(record, action) ==
  IF ~ObjHas(record, action.key) THEN Out(record, <<>>)
  ELSE LET current == ObjGet(record, action.key)
       IN IF action.target = "string"
          THEN Out(ObjPut(record, action.key, Str(JsString(current))), <<>>)
          ELSE IF action.target = "number"
          THEN IF JsNumber(current).t = "nan"
               THEN Out(record, << [warning |-> "cannotConvertToNumber",
                                    value |-> JsString(current)] >>)
               ELSE Out(ObjPut(record, action.key, JsNumber(current)), <<>>)
          ELSE Out(ObjPut(record, action.key, Bool(JsTruthy(current))), <<>>)

\* Object.assign(result, flattened)
RECURSIVE AssignAll(_, _)
AssignAll(result, es) ==
  IF es = <<>> THEN result
  ELSE AssignAll(ObjPut(result, Head(es)[1], Head(es)[2]), Tail(es))

\* for (const targetKey of targetKeys) of the flattenStrip case
RECURSIVE FlattenTargets(_, _, _, _, _)
FlattenTargets(result, targetKeys, keepPrefix, depth, useSmartEAV) ==
  IF targetKeys = <<>> THEN result
  ELSE LET targetKey == Head(targetKeys)
           targetValue == ObjGet(result, targetKey)
       IN FlattenTargets(
            IF ObjHas(result, targetKey) /\ IsContainer(targetValue)
            THEN AssignAll(ObjDelete(result, targetKey),
                           flattenObject(targetValue,
                                         IF keepPrefix THEN targetKey ELSE <<>>,
                                         Obj(<<>>), depth, 0, useSmartEAV).v)
            ELSE result,
            Tail(targetKeys), keepPrefix, depth, useSmartEAV)

\* the stripPrefix pass: every key that starts with the prefix loses it
RECURSIVE StripKeys(_, _, _)
StripKeys(es, prefix, stripped) ==
  IF es = <<>> THEN stripped
  ELSE LET key == Head(es)[1]
           nextKey == IF StartsWith(key, prefix)
                      THEN SubSeq(key, Len(prefix) + 1, Len(key)) ELSE key
       IN StripKeys(Tail(es), prefix, ObjPut(stripped, nextKey, Head(es)[2]))

flattenStripCase(record, action) ==
  LET depth == OrElse(action.depth, Infinity)
      keepPrefix == OrElse(action.keepPrefix, Bool(TRUE)).v
      useSmartEAV == OrElse(action.useSmartEAV, Bool(FALSE)).v
      targetKeys == TargetKeysOf(action.targetKeys, action.targetKey)
      result == IF Len(targetKeys) > 0
                THEN FlattenTargets(record, targetKeys, keepPrefix, depth, useSmartEAV)
                ELSE flattenObject(record, <<>>, Obj(<<>>), depth, 0, useSmartEAV)
  IN IF JsTruthy(action.stripPrefix)
     THEN Out(StripKeys(result.v, action.stripPrefix.v, Obj(<<>>)), <<>>)
     ELSE Out(result, <<>>)

RECURSIVE ReorderPick(_, _, _)
ReorderPick(order, record, next) ==
  IF order = <<>> THEN next
  ELSE ReorderPick(Tail(order), record,
                   IF ObjHas(record, Head(order))
                   THEN ObjPut(next, Head(order), ObjGet(record, Head(order)))
                   ELSE next)
RECURSIVE ReorderRest(_, _)
ReorderRest(es, next) ==
  IF es = <<>> THEN next
  ELSE ReorderRest(Tail(es), IF ObjHas(next, Head(es)[1]) THEN next
                             ELSE ObjPut(next, Head(es)[1], Head(es)[2]))
\* order first (the names the record has), then the record's other keys
reorderRecord(record, order) == ReorderRest(record.v, ReorderPick(order, record, Obj(<<>>)))
keyReorderCase(record, action) == Out(reorderRecord(record, action.order), <<>>)

\* a string is escaped, an object or array is serialized, anything else stays
EscapeOne(next, key) ==
  LET current == ObjGet(next, key)
  IN IF current.t = "str" THEN ObjPut(next, key, Str(escapeStringValue(current.v)))
     ELSE IF IsContainer(current) THEN ObjPut(next, key, Str(JsonStringify(current)))
     ELSE next
RECURSIVE EscapeKeys(_, _)
EscapeKeys(next, keys) ==
  IF keys = <<>> THEN next
  ELSE EscapeKeys(IF ObjHas(next, Head(keys)) THEN EscapeOne(next, Head(keys)) ELSE next,
                  Tail(keys))
escapeStringCase(record, action) ==
  LET targetKeys == TargetKeysOf(action.targetKeys, action.key)
  IN IF Len(targetKeys) > 0 THEN Out(EscapeKeys(record, targetKeys), <<>>)
     ELSE Out(EscapeKeys(record, ObjKeys(record)), <<>>)

RECURSIVE UnescapeKeys(_, _)
UnescapeKeys(next, keys) ==
  IF keys = <<>> THEN next
  ELSE UnescapeKeys(IF ObjHas(next, Head(keys)) /\ ObjGet(next, Head(keys)).t = "str"
                    THEN ObjPut(next, Head(keys),
                                Str(unescapeStringValue(ObjGet(next, Head(keys)).v)))
                    ELSE next,
                    Tail(keys))
unescapeStringCase(record, action) ==
  LET targetKeys == TargetKeysOf(action.targetKeys, action.key)
  IN IF Len(targetKeys) > 0 THEN Out(UnescapeKeys(record, targetKeys), <<>>)
     ELSE Out(UnescapeKeys(record, ObjKeys(record)), <<>>)

RECURSIVE ParseKeys(_, _)
ParseKeys(next, keys) ==
  IF keys = <<>> THEN next
  ELSE ParseKeys(IF ObjHas(next, Head(keys))
                 THEN ObjPut(next, Head(keys), smartParseValue(ObjGet(next, Head(keys))))
                 ELSE next,
                 Tail(keys))
parseJSONCase(record, action) ==
  LET targetKeys == TargetKeysOf(action.targetKeys, action.key)
  IN IF Len(targetKeys) > 0 THEN Out(ParseKeys(record, targetKeys), <<>>)
     ELSE Out(smartParseValue(record), <<>>)

\* the callback of data.map in applyBatch
applyToItem(item, action) ==
  IF ~IsPlainObject(item) THEN Out(item, <<>>)
  ELSE IF action.kind = "addField" THEN addFieldCase(item, action)
  ELSE IF action.kind = "deleteField" THEN deleteFieldCase(item, action)
  ELSE IF action.kind = "renameField" THEN renameFieldCase(item, action)
  ELSE IF action.kind = "updateValue" THEN updateValueCase(item, action)
  ELSE IF action.kind = "extractByCondition" THEN extractByConditionCase(item, action)
  ELSE IF action.kind = "nestFields" THEN nestFieldsCase(item, action)
  ELSE IF action.kind = "typeConvert" THEN typeConvertCase(item, action)
  ELSE IF action.kind = "flattenStrip" THEN flattenStripCase(item, action)
  ELSE IF action.kind = "keyReorder" THEN keyReorderCase(item, action)
  ELSE IF action.kind = "escapeString" THEN escapeStringCase(item, action)
  ELSE IF action.kind = "unescapeString" THEN unescapeStringCase(item, action)
  ELSE IF action.kind = "parseJSON" THEN parseJSONCase(item, action)
  ELSE Out(item, <<>>)

RECURSIVE ConcatAll(_)
ConcatAll(ss) == IF ss = <<>> THEN <<>> ELSE Head(ss) \o ConcatAll(Tail(ss))

\* an applyBatch that drops the records that are not mappings
applyBatch_DropsNonMappings(data, action) ==
  LET kept == SelectSeq(data, IsPlainObject)
  IN [data |-> [i \in 1..Len(kept) |-> applyToItem(kept[i], action).rec],
      warnings |-> ConcatAll([i \in 1..Len(kept) |-> applyToItem(kept[i], action).warns])]

\* applyBatch(data, action): [data, warnings]
applyBatch(data, action) ==
  [data |-> [i \in 1..Len(data) |-> applyToItem(data[i], action).rec],
   warnings |-> ConcatAll([i \in 1..Len(data) |-> applyToItem(data[i], action).warns])]

-----------------------------------------------------------------------------
(* Bounded inputs *)

\* the longest path handed to the path functions
MaxPathLen == 3

kA == <<"a">>
kB == <<"b">>
k0 == <<"0">>

Scalars == {Null, Str(<<"s">>), Num(7)}
PathParts == {Num(0), Num(1), Str(kA), Str(kB), Str(k0)}
Paths == UNION {[1..n -> PathParts] : n \in 0..MaxPathLen}

\* containers one level deep over a set of values
ShallowOver(vals) ==
  {Obj(<<>>), Arr(<<>>)}
  \cup {Obj(<< <<kA, x>> >>) : x \in vals}
  \cup {Obj(<< <<kA, x>>, <<kB, Num(7)>> >>) : x \in vals}
  \cup {Obj(<< <<k0, x>> >>) : x \in vals}
  \cup {Arr(<<x>>) : x \in vals}
  \cup {Arr(<<Num(7), x>>) : x \in vals}
  \cup {ArrP(<<x>>, << <<(<<"N", "a", "N">>), Num(7)>> >>) : x \in vals}

PathTargets == {Undef} \cup Scalars \cup ShallowOver(Scalars)
               \cup ShallowOver(ShallowOver(Scalars))
PathValues == {Undef, Null, Num(7), Obj(<< <<kA, Num(7)>> >>)}

\* the longest dataset handed to applyBatch
MaxRecords == 2

kC == <<"c">>
kN == <<"n">>
kT == <<"t">>
kEmpty == <<>>
kAdotB == <<"a", ".", "b">>
kTags == <<"t", "a", "g", "s">>
kLabel == <<"l", "a", "b", "e", "l">>
kValue == <<"v", "a", "l", "u", "e">>
kInfo == <<"i", "n", "f", "o">>
sTitle == <<"T", "i", "t", "l", "e">>
sYear == <<"Y", "e", "a", "r">>
sHello == <<"H", "e", "l", "l", "o">>

\* {label: l, value: x}
Eav(l, x) == Obj(<< <<kLabel, Str(l)>>, <<kValue, x>> >>)
\* the record of the smart-EAV example
TagsRecord == Obj(<< <<kTags, Arr(<<Eav(sTitle, Str(sHello)), Eav(sYear, Num(2024))>>)>> >>)

\* JSON trees for the flatten operation: leaves, containers over leaves, and
\* records that hold them under plain, dotted, empty and index-like keys
FlatLeaves == {Null, Str(<<"s">>), Num(7)}
FlatInner ==
  {Obj(<<>>), Arr(<<>>)}
  \cup {Obj(<< <<kA, x>> >>) : x \in FlatLeaves}
  \cup {Obj(<< <<kA, x>>, <<kB, Num(7)>> >>) : x \in FlatLeaves}
  \cup {Obj(<< <<k0, x>> >>) : x \in FlatLeaves}
  \cup {Obj(<< <<kAdotB, x>> >>) : x \in FlatLeaves}
  \cup {Obj(<< <<kEmpty, x>> >>) : x \in FlatLeaves}
  \cup {Arr(<<x>>) : x \in FlatLeaves}
  \cup {Arr(<<Num(7), x>>) : x \in FlatLeaves}
  \cup {Obj(<< <<kA, Obj(<< <<kB, x>> >>)>> >>) : x \in FlatLeaves}
  \cup {Obj(<< <<kA, Arr(<<x>>)>> >>) : x \in FlatLeaves}
  \cup {Arr(<<Arr(<<x>>)>>) : x \in FlatLeaves}
  \cup {Arr(<<Obj(<< <<kA, x>> >>)>>) : x \in FlatLeaves}
  \cup {Arr(<<Obj(<<>>), Arr(<<>>)>>), Eav(sTitle, Str(sHello)),
        Arr(<<Eav(sTitle, Str(sHello)), Eav(sYear, Num(2024))>>)}
FlatRecords ==
  {Obj(<<>>), TagsRecord}
  \cup {Obj(<< <<kA, x>> >>) : x \in FlatLeaves \cup FlatInner}
  \cup {Obj(<< <<kA, x>>, <<kB, y>> >>) : x \in FlatInner, y \in {Num(7), Obj(<< <<kA, Num(7)>> >>)}}
  \cup {Obj(<< <<kAdotB, x>> >>) : x \in FlatLeaves}
  \cup {Obj(<< <<kEmpty, x>> >>) : x \in FlatLeaves \cup {Obj(<<>>), Obj(<< <<kA, Num(7)>> >>)}}
  \cup {Obj(<< <<k0, x>> >>) : x \in FlatLeaves \cup {Arr(<<Num(7)>>), Obj(<< <<kA, Num(7)>> >>)}}

\* a record in which a key of its own is the compound key of a nested list
ClashRecord == Obj(<< <<kA, Obj(<< <<kB, Arr(<<Num(7)>>)>> >>)>>, <<kAdotB, Num(7)>> >>)
\* a record whose field, flattened without its prefix, leaves a mapping under
\* the name of the next target key
ChainRecord == Obj(<< <<kA, Obj(<< <<kB, Obj(<< <<kA, Num(7)>> >>)>> >>)>> >>)

\* records for the other operations
PlainRecords ==
  {Obj(<< <<kA, Str(<<"1">>)>> >>),
   Obj(<< <<kA, Str(<<"x">>)>> >>),
   Obj(<< <<kA, Num(1)>>, <<kB, Num(2)>>, <<kC, Num(3)>> >>),
   Obj(<< <<kB, Str(<<"s">>)>>, <<kA, Obj(<< <<kB, Num(1)>> >>)>> >>),
   Obj(<< <<kInfo, Str(<<"{", "\"", "x", "\"", ":", "1", "}">>)>> >>),
   Obj(<< <<kA, Str(<<"q", "\"", "\\", "\n", "t">>)>>, <<kB, Arr(<<Num(1)>>)>> >>),
   Obj(<< <<kA, Str(<<"\\", "n", "\\", "q">>)>>, <<kN, Null>> >>)}

\* strings for parseJSON: JSON text inside JSON text, JSON text in blanks, text
\* that only looks like JSON, and JSON text of a scalar
sListInList == <<"[", "\"", "[", "1", "]", "\"", "]">>
sObjInObj == <<"{", "\"", "a", "\"", ":", "\"", "{", "\\", "\"", "b", "\\", "\"", ":", "1", "}", "\"", "}">>
sPadded == <<" ", "[", "1", "]", " ">>
sBroken == <<"{", "x", "}">>
sBrokenInList == <<"[", "\"", "{", "x", "}", "\"", "]">>
sQuoted == <<"\"", "[", "1", "]", "\"">>
sNumber == <<"1", "2">>
JsonTexts == {sListInList, sObjInObj, sPadded, sBroken, sBrokenInList, sQuoted, sNumber}
ParseRecords ==
  {Obj(<< <<kInfo, Str(t)>> >>) : t \in JsonTexts}
  \cup {Obj(<< <<kA, Str(t)>>, <<kInfo, Arr(<<Str(t), Num(7)>>)>> >>) : t \in JsonTexts}

\* records that are not mappings
NonMappings == {Null, Str(<<"s">>), Num(7), Bool(TRUE), Arr(<<Num(7)>>),
                Arr(<<Obj(<< <<kA, Num(1)>> >>)>>)}

\* the records of the datasets longer than one record
PairRecords == {Null, Arr(<<Num(7)>>),
                Obj(<< <<kA, Str(<<"x">>)>> >>),
                Obj(<< <<kA, Str(<<"1">>)>>, <<kB, Str(<<"x">>)>> >>),
                Obj(<< <<kA, Obj(<< <<kB, Num(7)>> >>)>> >>),
                Obj(<< <<kAdotB, Num(7)>> >>),
                Obj(<< <<kA, Arr(<<Num(7)>>)>> >>),
                Obj(<< <<kA, Obj(<< <<k0, Num(7)>> >>)>> >>)}

BatchDatasets ==
  {<<>>}
  \cup {<<r>> : r \in FlatRecords \cup {ClashRecord, ChainRecord} \cup PlainRecords \cup ParseRecords
                      \cup NonMappings}
  \cup UNION {[1..n -> PairRecords] : n \in 2..MaxRecords}

AddField(key, mode, value, fromKey) ==
  [kind |-> "addField", key |-> key, mode |-> mode, value |-> value, fromKey |-> fromKey]
DeleteField(keys) == [kind |-> "deleteField", keys |-> keys]
RenameField(from, to) == [kind |-> "renameField", from |-> from, to |-> to]
UpdateValue(key, mode, value, prefix, suffix) ==
  [kind |-> "updateValue", key |-> key, mode |-> mode, value |-> value,
   prefix |-> prefix, suffix |-> suffix]
TypeConvert(key, target) == [kind |-> "typeConvert", key |-> key, target |-> target]
ExtractByCondition(sourceField, matchKey, matchValue, extractKey, targetField) ==
  [kind |-> "extractByCondition", sourceField |-> sourceField, matchKey |-> matchKey,
   matchValue |-> matchValue, extractKey |-> extractKey, targetField |-> targetField]
NestFields(sourceFields, targetField) ==
  [kind |-> "nestFields", sourceFields |-> sourceFields, targetField |-> targetField]
FlattenStrip(stripPrefix, depth, targetKeys, keepPrefix, useSmartEAV) ==
  [kind |-> "flattenStrip", stripPrefix |-> stripPrefix, depth |-> depth,
   targetKey |-> Undef, targetKeys |-> targetKeys, keepPrefix |-> keepPrefix,
   useSmartEAV |-> useSmartEAV]
KeyReorder(order) == [kind |-> "keyReorder", order |-> order]
EscapeString(key, targetKeys) ==
  [kind |-> "escapeString", key |-> key, targetKeys |-> targetKeys]
UnescapeString(key, targetKeys) ==
  [kind |-> "unescapeString", key |-> key, targetKeys |-> targetKeys]
ParseJSON(key, targetKeys) ==
  [kind |-> "parseJSON", key |-> key, targetKeys |-> targetKeys]

\* flattenStrip of the whole record: no EAV, no depth limit, no stripPrefix
FlattenAll == FlattenStrip(Undef, Undef, Undef, Bool(TRUE), Bool(FALSE))
\* flattenStrip(targetKeys: ["tags"], useSmartEAV: true, keepPrefix: true)
FlattenTagsEAV == FlattenStrip(Undef, Undef, KeyList(<<kTags>>), Bool(TRUE), Bool(TRUE))

BatchActions ==
  {AddField(kC, "static", Str(<<"v">>), Undef),
   AddField(kC, "static", Undef, Undef),
   AddField(kC, "copy", Undef, Str(kA)),
   AddField(kEmpty, "copy", Undef, Str(kN)),
   DeleteField(<<kA>>), DeleteField(<<kB, kN>>),
   RenameField(kA, kB), RenameField(kA, kA), RenameField(kB, kC), RenameField(kEmpty, kA), RenameField(kA, kEmpty),
   UpdateValue(kA, "set", Str(<<"v">>), Undef, Undef),
   UpdateValue(kA, "prefixSuffix", Undef, Str(<<"p">>), Undef),
   TypeConvert(kA, "number"), TypeConvert(kA, "string"), TypeConvert(kA, "boolean"),
   ExtractByCondition(kTags, kLabel, sTitle, kValue, kT),
   ExtractByCondition(kTags, kLabel, <<"2", "0", "2", "4">>, kValue, kT),
   ExtractByCondition(kTags, kValue, <<"2", "0", "2", "4">>, kLabel, kT),
   ExtractByCondition(kTags, kLabel, sYear, kT, kT),
   ExtractByCondition(kA, kB, <<"7">>, kB, kT),
   NestFields(<<kA>>, kN), NestFields(<<kA, kB>>, kA), NestFields(<<kA>>, kEmpty),
   NestFields(<<>>, kN),
   FlattenAll, FlattenTagsEAV,
   FlattenStrip(Undef, Undef, KeyList(<<kTags>>), Bool(FALSE), Bool(TRUE)),
   FlattenStrip(Undef, Undef, KeyList(<<kA>>), Undef, Undef),
   FlattenStrip(Undef, Num(1), Undef, Undef, Undef),
   FlattenStrip(Undef, Num(0), Undef, Undef, Undef),
   FlattenStrip(Undef, Num(2), Undef, Undef, Undef),
   FlattenStrip(Undef, Num(1), KeyList(<<kA>>), Undef, Undef),
   FlattenStrip(Undef, Num(1), KeyList(<<kA>>), Bool(FALSE), Undef),
   FlattenStrip(Undef, Num(1), KeyList(<<kA, kB>>), Undef, Undef),
   FlattenStrip(Undef, Num(1), KeyList(<<kA, kB>>), Bool(FALSE), Undef),
   FlattenStrip(Undef, Undef, KeyList(<<kA, kB>>), Undef, Undef),
   FlattenStrip(Str(<<"a", ".">>), Undef, Undef, Undef, Bool(TRUE)),
   KeyReorder(<<kB, kA>>), KeyReorder(<<kC, kT>>),
   EscapeString(Undef, Undef), EscapeString(Str(kA), Undef),
   UnescapeString(Undef, Undef), UnescapeString(Undef, KeyList(<<kA>>)),
   ParseJSON(Undef, Undef), ParseJSON(Undef, KeyList(<<kInfo>>)),
   ParseJSON(Str(kA), Undef)}

-----------------------------------------------------------------------------
(* Initial values of the parts a specification does not exercise *)

PathIdle ==
  /\ pathPhase = "idle" /\ pathTarget = Undef /\ pathArg = <<>>
  /\ pathValue = Undef /\ pathResult = Undef /\ pathRead = Undef
TextIdle ==
  /\ textPhase = "idle" /\ textIn = <<>> /\ textEscaped = <<>> /\ textBack = <<>>
SchemaIdle ==
  /\ schemaPhase = "idle" /\ schemaSamples = <<>> /\ schemaMaxDepth = 0
  /\ schemaTree = [type |-> "none"]
BatchIdle ==
  /\ batchPhase = "idle" /\ batchData = <<>> /\ batchAction = [kind |-> "none"]
  /\ batchOut = <<>> /\ batchWarnings = <<>> /\ batchAgain = <<>>
StoreIdle ==
  /\ files = <<>> /\ activeFileId = "none" /\ currentIndex = 0
  /\ history = [id \in {"f1", "f2"} |-> [has |-> FALSE, past |-> <<>>, future |-> <<>>]]
  /\ searchQuery = <<>> /\ filterGroups = <<>>
  /\ filteredIndices = <<>>
  /\ lastOp = [op |-> "init", recorded |-> FALSE,
               before |-> [id |-> "none", data |-> <<>>, keyOrder |-> Undef],
               call |-> "none", args |-> <<>>]
WorkerIdle ==
  /\ pending = {} /\ progressHandlers = {} /\ workerInbox = <<>>
  /\ clientInbox = <<>> /\ usedIds = {} /\ resolvedBy = <<>>
  /\ progressSeen = <<>> /\ loading = FALSE /\ jobs = <<>>

-----------------------------------------------------------------------------
(* SpecPath: setAtPath and getAtPath on every bounded (target, path, value) *)

InitPath ==
  /\ pathPhase = "start"
  /\ pathTarget \in PathTargets
  /\ pathArg \in Paths
  /\ pathValue \in PathValues
  /\ pathResult = Undef /\ pathRead = Undef
  /\ TextIdle /\ SchemaIdle /\ BatchIdle /\ StoreIdle /\ WorkerIdle

\* pathResult := setAtPath(pathTarget, pathArg, pathValue)
SetAtPath ==
  /\ pathPhase = "start"
  /\ pathResult' = setAtPath(pathTarget, pathArg, pathValue)
  /\ pathPhase' = "set"
  /\ UNCHANGED <<pathTarget, pathArg, pathValue, pathRead>>
  /\ UNCHANGED <<textVars, schemaVars, batchVars, storeVars, workerVars>>

\* pathRead := getAtPath(pathResult, pathArg)
GetAtPath ==
  /\ pathPhase = "set"
  /\ pathRead' = getAtPath(pathResult, pathArg)
  /\ pathPhase' = "got"
  /\ UNCHANGED <<pathTarget, pathArg, pathValue, pathResult>>
  /\ UNCHANGED <<textVars, schemaVars, batchVars, storeVars, workerVars>>

NextPath == SetAtPath \/ GetAtPath
SpecPath == InitPath /\ [][NextPath]_vars

\* C2: set-then-get round trip: reading the path just written returns the
\* value written, for every target, path and value, also when the path runs
\* through a primitive or a missing container.
C2_SetGetRoundTrip == pathPhase = "got" => pathRead = pathValue

\* the path ran through a primitive that setAtPath had to overwrite
C2_Witness ==
  /\ pathPhase = "got"
  /\ Len(pathArg) >= 2
  /\ getAtPath(pathTarget, SubSeq(pathArg, 1, 1)).t \in {"str", "num", "null"}
  /\ pathRead = pathValue
  /\ pathValue # Undef

-----------------------------------------------------------------------------
(* SpecBatch: applyBatch on every bounded (dataset, action) *)

InitBatch ==
  /\ batchPhase = "start"
  /\ batchData \in BatchDatasets
  /\ batchAction \in BatchActions
  /\ batchOut = <<>> /\ batchWarnings = <<>> /\ batchAgain = <<>>
  /\ PathIdle /\ TextIdle /\ SchemaIdle /\ StoreIdle /\ WorkerIdle

\* the worker's "batch" case: applyBatch(message.payload.data, message.payload.action)
ApplyBatch ==
  /\ batchPhase = "start"
  /\ batchOut' = applyBatch(batchData, batchAction).data
  /\ batchWarnings' = applyBatch(batchData, batchAction).warnings
  /\ batchPhase' = "done"
  /\ UNCHANGED <<batchData, batchAction, batchAgain>>
  /\ UNCHANGED <<pathVars, textVars, schemaVars, storeVars, workerVars>>

\* the same operation run once more on the dataset it returned
ApplyAgain ==
  /\ batchPhase = "done"
  /\ batchAgain' = applyBatch(batchOut, batchAction).data
  /\ batchPhase' = "again"
  /\ UNCHANGED <<batchData, batchAction, batchOut, batchWarnings>>
  /\ UNCHANGED <<pathVars, textVars, schemaVars, storeVars, workerVars>>

NextBatch == ApplyBatch \/ ApplyAgain
SpecBatch == InitBatch /\ [][NextBatch]_vars

\* C1: applyBatch returns a dataset of the same length; output record i is
\* what the operation makes of input record i alone; an input record that is
\* not a mapping (null, scalar or list) is unchanged at its position.
C1_PerRecordFrame ==
  batchPhase = "done" =>
    /\ Len(batchOut) = Len(batchData)
    /\ \A i \in 1..Len(batchData) :
         /\ i <= Len(batchOut)
         /\ batchOut[i] = applyBatch(<<batchData[i]>>, batchAction).data[1]
         /\ (~IsPlainObject(batchData[i]) => batchOut[i] = batchData[i])

\* a two-record dataset with a list first and a mapping that the operation changed
C1_Witness ==
  /\ batchPhase = "done"
  /\ Len(batchData) = 2
  /\ IsArray(batchData[1]) /\ batchOut[1] = batchData[1]
  /\ IsPlainObject(batchData[2]) /\ batchOut[2] # batchData[2]

\* what the claim expects of a record whose field F is a list of {label, value}
\* objects: F is replaced by one key F.<label> per element, holding its value
EavExpected(record, F) ==
  AssignAll(ObjDelete(record, F),
            [j \in 1..Len(ObjGet(record, F).v) |->
               <<F \o <<".">> \o ObjGet(ObjGet(record, F).v[j], kLabel).v,
                 ObjGet(ObjGet(record, F).v[j], kValue)>>])
IsEavList(x) ==
  /\ IsArray(x) /\ Len(x.v) > 0
  /\ \A j \in 1..Len(x.v) : isEAVObject(x.v[j]) /\ ~IsContainer(ObjGet(x.v[j], kValue))

\* C9: flattenStrip with useSmartEAV and keepPrefix on a field F that is a list
\* of {label, value} objects yields one key F.<label> per element, holding the
\* element's value, with no list index in the key.
C9_SmartEAVKeys ==
  (batchPhase = "done" /\ batchAction = FlattenTagsEAV) =>
    \A i \in 1..Len(batchData) :
      (IsPlainObject(batchData[i]) /\ IsEavList(ObjGet(batchData[i], kTags)))
        => batchOut[i] = EavExpected(batchData[i], kTags)

\* re-nesting: each compound key is split at its dots and its value is set at
\* that path, an index segment addressing a list position
ParsePath(key) ==
  LET segs == Split(key, ".")
  IN [i \in 1..Len(segs) |->
        IF IsIndexKey(segs[i]) THEN Num(DigitsToNat(segs[i], 0)) ELSE Str(segs[i])]
RECURSIVE RenestEntries(_, _)
RenestEntries(es, acc) ==
  IF es = <<>> THEN acc
  ELSE RenestEntries(Tail(es), setAtPath(acc, ParsePath(Head(es)[1]), Head(es)[2]))
Renest(flat) == RenestEntries(flat.v, Obj(<<>>))

\* every mapping key is non-empty and has no dot, and no mapping below the top
\* level has a list index as a key
RECURSIVE CleanTree(_, _)
CleanTree(x, top) ==
  IF IsPlainObject(x)
  THEN \A i \in 1..Len(x.v) :
         /\ x.v[i][1] # <<>>
         /\ \A c \in 1..Len(x.v[i][1]) : x.v[i][1][c] # "."
         /\ (~top => ~IsIndexKey(x.v[i][1]))
         /\ CleanTree(x.v[i][2], FALSE)
  ELSE IF IsArray(x) THEN \A i \in 1..Len(x.v) : CleanTree(x.v[i], FALSE)
  ELSE TRUE

\* C10 as claimed: flattening the whole record and re-nesting at the dots gives
\* the record back, for every object/array tree, and two different records
\* never flatten to the same output.
C10_Original ==
  (batchPhase = "done" /\ batchAction = FlattenAll) =>
    /\ \A i \in 1..Len(batchData) :
         IsPlainObject(batchData[i]) => Renest(batchOut[i]) = batchData[i]
    /\ \A i, j \in 1..Len(batchData) :
         (IsPlainObject(batchData[i]) /\ IsPlainObject(batchData[j])
          /\ batchData[i] # batchData[j]) => batchOut[i] # batchOut[j]

\* C10 amended: the same for the trees whose mapping keys are non-empty and
\* dot-free and whose mappings below the top level have no list index as a key.
C10_FlattenRenest ==
  (batchPhase = "done" /\ batchAction = FlattenAll) =>
    /\ \A i \in 1..Len(batchData) :
         (IsPlainObject(batchData[i]) /\ CleanTree(batchData[i], TRUE))
           => Renest(batchOut[i]) = batchData[i]
    /\ \A i, j \in 1..Len(batchData) :
         (IsPlainObject(batchData[i]) /\ IsPlainObject(batchData[j])
          /\ CleanTree(batchData[i], TRUE) /\ CleanTree(batchData[j], TRUE)
          /\ batchData[i] # batchData[j]) => batchOut[i] # batchOut[j]

\* a record with a list nested in a mapping was flattened to compound keys and
\* re-nests to itself
C10_Witness ==
  /\ batchPhase = "done" /\ batchAction = FlattenAll
  /\ Len(batchData) = 1
  /\ IsPlainObject(batchData[1]) /\ CleanTree(batchData[1], TRUE)
  /\ IsPlainObject(ObjGet(batchData[1], kA))
  /\ IsArray(ObjGet(ObjGet(batchData[1], kA), kA))
  /\ batchOut[1] # batchData[1]
  /\ Renest(batchOut[1]) = batchData[1]

-----------------------------------------------------------------------------
(* The file store (store/fileStore.ts)                                      *)
(*                                                                           *)
(* A file is [id, data, keyOrder]: data is the sequence of records and       *)
(* keyOrder is Undef or a KeyList. activeFileId is NoFile for null. history  *)
(* maps a file id to [has, past, future]; has is FALSE where the store has   *)
(* no entry for the id. lastOp describes the last handler that ran:          *)
(* recorded is TRUE when it pushed a snapshot of the active file, and before *)
(* is that file as it was when the handler started.                          *)

MAX_HISTORY == 50

NoFile == "none"
FileIds == {"f1", "f2"}
File(id, data, keyOrder) == [id |-> id, data |-> data, keyOrder |-> keyOrder]

\* files.findIndex((f) => f.id === id) + 1
FindFile(fs, id) ==
  IF \E i \in 1..Len(fs) : fs[i].id = id
  THEN CHOOSE i \in 1..Len(fs) : fs[i].id = id /\ \A j \in 1..(i - 1) : fs[j].id # id
  ELSE 0
ActiveIndex == FindFile(files, activeFileId)
ActiveFile == files[ActiveIndex]

\* JSON.parse(JSON.stringify(data))
JsonClone(data) == JsonParse(JsonStringify(Arr(data))).val.v

NoHistory == [has |-> FALSE, past |-> <<>>, future |-> <<>>]
EmptyHistory == [has |-> TRUE, past |-> <<>>, future |-> <<>>]

\* { data: JSON.parse(JSON.stringify(file.data)),
\*   keyOrder: file.keyOrder ? [...file.keyOrder] : undefined }
HistoryEntry(file) == [data |-> JsonClone(file.data), keyOrder |-> file.keyOrder]

\* a push that never drops a snapshot
PushCapped_NoCap(past, entry) == Append(past, entry)

\* past.push(entry); if (past.length > MAX_HISTORY) past.shift()
PushCapped(past, entry) ==
  IF Len(past) + 1 > MAX_HISTORY THEN Tail(Append(past, entry)) ELSE Append(past, entry)

\* a save that leaves the redo entries in place
SaveHistory_KeepsFuture(h, file) ==
  [h EXCEPT ![file.id] = [has |-> TRUE,
                          past |-> PushCapped(h[file.id].past, HistoryEntry(file)),
                          future |-> h[file.id].future]]

\* the "save history" block of the recorded handlers
SaveHistory(h, file) ==
  [h EXCEPT ![file.id] = [has |-> TRUE,
                          past |-> PushCapped(h[file.id].past, HistoryEntry(file)),
                          future |-> <<>>]]

Min2(a, b) == IF a < b THEN a ELSE b
Max2(a, b) == IF a > b THEN a ELSE b
\* Math.max(0, Math.min(index, length - 1))
ClampIndex(index, length) == Max2(0, Min2(index, length - 1))

\* the record of lastOp: the handlers the properties tell apart keep their
\* name, the other ones are "recorded" when they pushed a snapshot of the
\* active file, "rejected" when they took an early return, else "other"
TrackedOps == {"undo", "redo", "commitFilterToData", "recalculateFilteredData"}
Did(name, ok, recorded) ==
  [op |-> IF ~ok THEN "rejected"
          ELSE IF name \in TrackedOps THEN name
          ELSE IF recorded THEN "recorded" ELSE "other",
   recorded |-> recorded,
   before |-> IF recorded THEN ActiveFile ELSE File(NoFile, <<>>, Undef),
   call |-> "none", args |-> <<>>]
\* a filter handler that changes the groups: it ends with a recalculation, and
\* its name and arguments are kept
FilterCall(name, args) ==
  [Did("recalculateFilteredData", TRUE, FALSE) EXCEPT !.call = name, !.args = args]

\* filterGroups.flatMap((g) => g.rules)
RECURSIVE AllRules(_)
AllRules(groups) == IF groups = <<>> THEN <<>> ELSE Head(groups).rules \o AllRules(Tail(groups))
\* searchQuery.trim() !== "" || allRules.length > 0
HasFilters(query, groups) == Trim(query) # <<>> \/ Len(AllRules(groups)) > 0

\* checkRule of recalculateFilteredData
checkRule(rec, rule) ==
  LET fieldValue == JsString(OrElse(PropRead(rec, rule.field), Str(<<>>)))
  IN IF rule.operator = "contains" THEN Includes(ToLower(fieldValue), ToLower(rule.value))
     ELSE IF rule.operator = "equals" THEN fieldValue = rule.value
     ELSE IF rule.operator = "startsWith" THEN StartsWith(ToLower(fieldValue), ToLower(rule.value))
     ELSE IF rule.operator = "endsWith" THEN EndsWith(ToLower(fieldValue), ToLower(rule.value))
     ELSE IF rule.operator = "notContains" THEN ~Includes(ToLower(fieldValue), ToLower(rule.value))
     ELSE IF rule.operator = "isEmpty" THEN fieldValue = <<>> \/ Trim(fieldValue) = <<>>
     ELSE IF rule.operator = "isNotEmpty" THEN fieldValue # <<>> /\ Trim(fieldValue) # <<>>
     ELSE TRUE

\* a match that asks for one passing group only
recordMatches_AnyGroup(record, query, groups) ==
  /\ IsContainer(record)
  /\ (Trim(query) # <<>> => Includes(ToLower(JsonStringify(record)), ToLower(query)))
  /\ (Len(groups) # 0 =>
        \E g \in 1..Len(groups) :
          \/ Len(groups[g].rules) = 0
          \/ \E r \in 1..Len(groups[g].rules) : checkRule(record, groups[g].rules[r]))

\* the body of data.forEach in recalculateFilteredData: does the record match
recordMatches(record, query, groups) ==
  /\ IsContainer(record)
  /\ (Trim(query) # <<>> => Includes(ToLower(JsonStringify(record)), ToLower(query)))
  /\ (Len(groups) # 0 =>
        \A g \in 1..Len(groups) :
          \/ Len(groups[g].rules) = 0
          \/ \E r \in 1..Len(groups[g].rules) : checkRule(record, groups[g].rules[r]))

\* recalculateFilteredData: the new [filteredIndices, currentIndex]
recalculateFilteredData(fs, active, query, groups, index) ==
  IF FindFile(fs, active) = 0 THEN [filteredIndices |-> <<>>, currentIndex |-> 0]
  ELSE LET data == fs[FindFile(fs, active)].data
       IN IF ~HasFilters(query, groups)
          THEN [filteredIndices |-> <<>>, currentIndex |-> Min2(index, Len(data) - 1)]
          ELSE LET matched == SelectIdx(data, LAMBDA i : recordMatches(data[i], query, groups))
               IN [filteredIndices |-> [k \in 1..Len(matched) |-> matched[k] - 1],
                   currentIndex |-> 0]

\* the store leaves the other components alone
StoreOnly == UNCHANGED <<pathVars, textVars, schemaVars, batchVars, workerVars>>
FilterKept == UNCHANGED <<searchQuery, filterGroups, filteredIndices>>

\* the active file replaced by f
WithActive(f) == [files EXCEPT ![ActiveIndex] = f]

AddFile(file) ==
  /\ files' = Append(files, file)
  /\ history' = [history EXCEPT ![file.id] = EmptyHistory]
  /\ IF activeFileId = NoFile
     THEN activeFileId' = file.id /\ currentIndex' = 0
     ELSE UNCHANGED <<activeFileId, currentIndex>>
  /\ lastOp' = Did("addFile", TRUE, FALSE)
  /\ FilterKept /\ StoreOnly

SetActiveFile(id) ==
  /\ activeFileId' = id
  /\ currentIndex' = 0
  /\ lastOp' = Did("setActiveFile", TRUE, FALSE)
  /\ UNCHANGED <<files, history>>
  /\ FilterKept /\ StoreOnly

RemoveFile(id) ==
  /\ IF FindFile(files, id) = 0
     THEN /\ UNCHANGED <<files, history, activeFileId, currentIndex>>
          /\ lastOp' = Did("removeFile", FALSE, FALSE)
     ELSE /\ files' = SubSeq(files, 1, FindFile(files, id) - 1)
                      \o SubSeq(files, FindFile(files, id) + 1, Len(files))
          /\ history' = [history EXCEPT ![id] = NoHistory]
          /\ IF activeFileId = id
             THEN /\ activeFileId' = (IF files' = <<>> THEN NoFile ELSE files'[1].id)
                  /\ currentIndex' = 0
             ELSE UNCHANGED <<activeFileId, currentIndex>>
          /\ lastOp' = Did("removeFile", TRUE, FALSE)
  /\ FilterKept /\ StoreOnly

\* replaceFileData on the store's variables
replaceFileData(id, data) ==
  /\ IF FindFile(files, id) = 0
     THEN /\ UNCHANGED <<files, history>>
          /\ lastOp' = Did("replaceFileData", FALSE, FALSE)
     ELSE /\ history' = SaveHistory(history, files[FindFile(files, id)])
          /\ files' = [files EXCEPT ![FindFile(files, id)].data = data]
          /\ lastOp' = Did("replaceFileData", TRUE, id = activeFileId)
  /\ UNCHANGED <<activeFileId, currentIndex>>
  /\ FilterKept

ReplaceFileData(id, data) == replaceFileData(id, data) /\ StoreOnly

SetIndex(index) ==
  /\ IF ActiveIndex = 0
     THEN UNCHANGED currentIndex /\ lastOp' = Did("setIndex", FALSE, FALSE)
     ELSE /\ currentIndex' = ClampIndex(index, Len(ActiveFile.data))
          /\ lastOp' = Did("setIndex", TRUE, FALSE)
  /\ UNCHANGED <<files, history, activeFileId>>
  /\ FilterKept /\ StoreOnly

UpdateRecord(index, value) ==
  /\ IF ActiveIndex = 0 \/ index < 0 \/ index >= Len(ActiveFile.data)
     THEN UNCHANGED files /\ lastOp' = Did("updateRecord", FALSE, FALSE)
     ELSE /\ files' = WithActive([ActiveFile EXCEPT !.data[index + 1] = value])
          /\ lastOp' = Did("updateRecord", TRUE, FALSE)
  /\ UNCHANGED <<history, activeFileId, currentIndex>>
  /\ FilterKept /\ StoreOnly

\* replaceActiveFileData on the store's variables
replaceActiveFileData(data, saveHistory) ==
  /\ IF ActiveIndex = 0
     THEN /\ UNCHANGED <<files, history, currentIndex>>
          /\ lastOp' = Did("replaceActiveFileData", FALSE, FALSE)
     ELSE /\ history' = (IF saveHistory THEN SaveHistory(history, ActiveFile) ELSE history)
          /\ files' = WithActive([ActiveFile EXCEPT !.data = data])
          /\ currentIndex' = ClampIndex(currentIndex, Len(data))
          /\ lastOp' = Did("replaceActiveFileData", TRUE, saveHistory)
  /\ UNCHANGED activeFileId
  /\ FilterKept

ReplaceActiveFileData(data, saveHistory) == replaceActiveFileData(data, saveHistory) /\ StoreOnly

AppendActiveRecord(value) ==
  /\ IF ActiveIndex = 0
     THEN UNCHANGED files /\ lastOp' = Did("appendActiveRecord", FALSE, FALSE)
     ELSE /\ files' = WithActive([ActiveFile EXCEPT !.data = Append(@, value)])
          /\ lastOp' = Did("appendActiveRecord", TRUE, FALSE)
  /\ UNCHANGED <<history, activeFileId, currentIndex>>
  /\ FilterKept /\ StoreOnly

\* file.data = entry.data; if (entry.keyOrder) file.keyOrder = entry.keyOrder
Restore(file, entry) ==
  [file EXCEPT !.data = entry.data,
               !.keyOrder = IF entry.keyOrder.t # "undef" THEN entry.keyOrder ELSE @]

Undo ==
  /\ IF activeFileId = NoFile \/ ActiveIndex = 0
        \/ ~history[activeFileId].has \/ Len(history[activeFileId].past) = 0
     THEN /\ UNCHANGED <<files, history, currentIndex>>
          /\ lastOp' = Did("undo", FALSE, FALSE)
     ELSE LET h == history[activeFileId]
              previousEntry == h.past[Len(h.past)]
          IN /\ history' = [history EXCEPT ![activeFileId] =
                              [has |-> TRUE,
                               past |-> SubSeq(h.past, 1, Len(h.past) - 1),
                               future |-> Append(h.future, HistoryEntry(ActiveFile))]]
             /\ files' = WithActive(Restore(ActiveFile, previousEntry))
             /\ currentIndex' = ClampIndex(currentIndex, Len(previousEntry.data))
             /\ lastOp' = Did("undo", TRUE, FALSE)
  /\ UNCHANGED activeFileId
  /\ FilterKept /\ StoreOnly

Redo ==
  /\ IF activeFileId = NoFile \/ ActiveIndex = 0
        \/ ~history[activeFileId].has \/ Len(history[activeFileId].future) = 0
     THEN /\ UNCHANGED <<files, history, currentIndex>>
          /\ lastOp' = Did("redo", FALSE, FALSE)
     ELSE LET h == history[activeFileId]
              nextEntry == h.future[Len(h.future)]
          IN /\ history' = [history EXCEPT ![activeFileId] =
                              [has |-> TRUE,
                               past |-> Append(h.past, HistoryEntry(ActiveFile)),
                               future |-> SubSeq(h.future, 1, Len(h.future) - 1)]]
             /\ files' = WithActive(Restore(ActiveFile, nextEntry))
             /\ currentIndex' = ClampIndex(currentIndex, Len(nextEntry.data))
             /\ lastOp' = Did("redo", TRUE, FALSE)
  /\ UNCHANGED activeFileId
  /\ FilterKept /\ StoreOnly

\* the recorded handlers that map every record of the active file:
\* save history, data = data.map(change), keyOrder = the new hint
MapActive(name, Change(_), keyOrder) ==
  /\ history' = SaveHistory(history, ActiveFile)
  /\ files' = WithActive([ActiveFile EXCEPT
                            !.data = [i \in 1..Len(@) |->
                                        IF IsPlainObject(@[i]) THEN Change(@[i]) ELSE @[i]],
                            !.keyOrder = keyOrder])
  /\ lastOp' = Did(name, TRUE, TRUE)

ReorderKeys(newOrder) ==
  /\ IF ActiveIndex = 0
     THEN UNCHANGED <<files, history>> /\ lastOp' = Did("reorderKeys", FALSE, FALSE)
     ELSE MapActive("reorderKeys", LAMBDA record : reorderRecord(record, newOrder),
                    KeyList(newOrder))
  /\ UNCHANGED <<activeFileId, currentIndex>>
  /\ FilterKept /\ StoreOnly

\* Object.keys(oldRecord).forEach: newRecord[key === oldKey ? newKey : key] = oldRecord[key]
RECURSIVE RenameEntries(_, _, _, _)
RenameEntries(es, oldKey, newKey, newRecord) ==
  IF es = <<>> THEN newRecord
  ELSE RenameEntries(Tail(es), oldKey, newKey,
                     ObjPut(newRecord, IF Head(es)[1] = oldKey THEN newKey ELSE Head(es)[1],
                            Head(es)[2]))
\* keyOrder[keyOrder.indexOf(oldKey)] = newKey
RenameInOrder(keyOrder, oldKey, newKey) ==
  IF keyOrder.t = "undef" THEN keyOrder
  ELSE KeyList([i \in 1..Len(keyOrder.v) |->
                  IF keyOrder.v[i] = oldKey /\ \A j \in 1..(i - 1) : keyOrder.v[j] # oldKey
                  THEN newKey ELSE keyOrder.v[i]])

BatchRenameField(oldKey, newKey) ==
  /\ IF ActiveIndex = 0 \/ oldKey = <<>> \/ newKey = <<>> \/ oldKey = newKey
     THEN UNCHANGED <<files, history>> /\ lastOp' = Did("batchRenameField", FALSE, FALSE)
     ELSE MapActive("batchRenameField",
                    LAMBDA record : IF ~ObjHas(record, oldKey) THEN record
                                    ELSE RenameEntries(record.v, oldKey, newKey, Obj(<<>>)),
                    RenameInOrder(ActiveFile.keyOrder, oldKey, newKey))
  /\ UNCHANGED <<activeFileId, currentIndex>>
  /\ FilterKept /\ StoreOnly

BatchDeleteField(key) ==
  /\ IF ActiveIndex = 0 \/ key = <<>>
     THEN UNCHANGED <<files, history>> /\ lastOp' = Did("batchDeleteField", FALSE, FALSE)
     ELSE MapActive("batchDeleteField",
                    LAMBDA record : ObjDelete(record, key),
                    IF ActiveFile.keyOrder.t = "undef" THEN Undef
                    ELSE KeyList(SelectSeq(ActiveFile.keyOrder.v, LAMBDA k : k # key)))
  /\ UNCHANGED <<activeFileId, currentIndex>>
  /\ FilterKept /\ StoreOnly

\* Array.from(new Set(sourceFields.map(trim).filter(Boolean))).filter((f) => f !== target)
RECURSIVE CleanSource(_, _, _)
CleanSource(sourceFields, trimmedTarget, out) ==
  IF sourceFields = <<>> THEN out
  ELSE LET field == Trim(Head(sourceFields))
       IN CleanSource(Tail(sourceFields), trimmedTarget,
                      IF field = <<>> \/ field = trimmedTarget
                         \/ \E i \in 1..Len(out) : out[i] = field
                      THEN out ELSE Append(out, field))
\* sourceSet.forEach: targetObject[field] = next[field]; delete next[field]
RECURSIVE NestInto(_, _, _)
NestInto(next, targetObject, fields) ==
  IF fields = <<>> THEN [next |-> next, targetObject |-> targetObject]
  ELSE NestInto(ObjDelete(next, Head(fields)),
                ObjPut(targetObject, Head(fields), ObjGet(next, Head(fields))),
                Tail(fields))
nestRecord(record, cleanedSource, trimmedTarget) ==
  LET existing == ObjGet(record, trimmedTarget)
      moved == NestInto(record, IF IsPlainObject(existing) THEN existing ELSE Obj(<<>>),
                        cleanedSource)
  IN ObjPut(moved.next, trimmedTarget, moved.targetObject)
NestOrder(keyOrder, cleanedSource, trimmedTarget) ==
  IF keyOrder.t = "undef" \/ Len(keyOrder.v) = 0 THEN keyOrder
  ELSE LET nextOrder == SelectSeq(keyOrder.v,
                                  LAMBDA k : ~\E i \in 1..Len(cleanedSource) : cleanedSource[i] = k)
       IN KeyList(IF \E i \in 1..Len(nextOrder) : nextOrder[i] = trimmedTarget
                  THEN nextOrder ELSE Append(nextOrder, trimmedTarget))

StoreNestFields(sourceFields, targetField) ==
  /\ LET trimmedTarget == Trim(targetField)
         cleanedSource == CleanSource(sourceFields, trimmedTarget, <<>>)
     IN IF ActiveIndex = 0 \/ trimmedTarget = <<>> \/ Len(cleanedSource) = 0
        THEN UNCHANGED <<files, history>> /\ lastOp' = Did("nestFields", FALSE, FALSE)
        ELSE MapActive("nestFields",
                       LAMBDA record : nestRecord(record, cleanedSource, trimmedTarget),
                       NestOrder(ActiveFile.keyOrder, cleanedSource, trimmedTarget))
  /\ UNCHANGED <<activeFileId, currentIndex>>
  /\ FilterKept /\ StoreOnly

\* get().recalculateFilteredData() at the end of a handler that has set the
\* query and the groups
Recalculate(query, groups) ==
  LET r == recalculateFilteredData(files, activeFileId, query, groups, currentIndex)
  IN /\ filteredIndices' = r.filteredIndices
     /\ currentIndex' = r.currentIndex

RecalculateFilteredData ==
  /\ Recalculate(searchQuery, filterGroups)
  /\ lastOp' = Did("recalculateFilteredData", TRUE, FALSE)
  /\ UNCHANGED <<files, history, activeFileId, searchQuery, filterGroups>>
  /\ StoreOnly

SetSearchQuery(query) ==
  /\ searchQuery' = query
  /\ Recalculate(query, filterGroups)
  /\ lastOp' = Did("recalculateFilteredData", TRUE, FALSE)
  /\ UNCHANGED <<files, history, activeFileId, filterGroups>>
  /\ StoreOnly

Rule(id, field, operator, value) ==
  [id |-> id, field |-> field, operator |-> operator, value |-> value]
\* crypto.randomUUID(): an id no group has
FreshGroupId(groups) ==
  CHOOSE n \in 1..(Len(groups) + 1) : \A g \in 1..Len(groups) : groups[g].id # n
\* filterGroups.find(test): the position of the first group that passes, or 0
FirstGroup(groups, Test(_)) ==
  IF \E g \in 1..Len(groups) : Test(groups[g])
  THEN CHOOSE g \in 1..Len(groups) : Test(groups[g]) /\ \A j \in 1..(g - 1) : ~Test(groups[j])
  ELSE 0
PushRule(groups, g, rule) == [groups EXCEPT ![g].rules = Append(@, rule)]
NewGroup(groups, rule) == Append(groups, [id |-> FreshGroupId(groups), rules |-> <<rule>>])

\* an addFilterRule whose default puts every rule in a group of its own
addFilterRule_AlwaysNewGroup(groups, rule, options) ==
  IF options.groupId # 0
  THEN LET g == FirstGroup(groups, LAMBDA x : x.id = options.groupId)
       IN IF g # 0 THEN PushRule(groups, g, rule) ELSE groups
  ELSE NewGroup(groups, rule)

\* options: groupId is 0 when absent
addFilterRule(groups, rule, options) ==
  IF options.groupId # 0
  THEN LET g == FirstGroup(groups, LAMBDA x : x.id = options.groupId)
       IN IF g # 0 THEN PushRule(groups, g, rule) ELSE groups
  ELSE IF options.forceNewGroup THEN NewGroup(groups, rule)
  ELSE LET g == FirstGroup(groups, LAMBDA x : \E r \in 1..Len(x.rules) :
                                                 x.rules[r].field = rule.field)
       IN IF g # 0 THEN PushRule(groups, g, rule) ELSE NewGroup(groups, rule)

AddFilterRule(rule, options) ==
  /\ filterGroups' = addFilterRule(filterGroups, rule, options)
  /\ Recalculate(searchQuery, filterGroups')
  /\ lastOp' = FilterCall("addFilterRule", [rule |-> rule, options |-> options])
  /\ UNCHANGED <<files, history, activeFileId, searchQuery>>
  /\ StoreOnly

RemoveFilterRule(ruleId) ==
  /\ filterGroups' =
       SelectSeq([g \in 1..Len(filterGroups) |->
                    [filterGroups[g] EXCEPT !.rules = SelectSeq(@, LAMBDA r : r.id # ruleId)]],
                 LAMBDA x : Len(x.rules) > 0)
  /\ Recalculate(searchQuery, filterGroups')
  /\ lastOp' = FilterCall("removeFilterRule", [ruleId |-> ruleId])
  /\ UNCHANGED <<files, history, activeFileId, searchQuery>>
  /\ StoreOnly

RemoveFilterGroup(groupId) ==
  /\ filterGroups' = SelectSeq(filterGroups, LAMBDA x : x.id # groupId)
  /\ Recalculate(searchQuery, filterGroups')
  /\ lastOp' = FilterCall("removeFilterGroup", [groupId |-> groupId])
  /\ UNCHANGED <<files, history, activeFileId, searchQuery>>
  /\ StoreOnly

ClearAllFilters ==
  /\ searchQuery' = <<>>
  /\ filterGroups' = <<>>
  /\ filteredIndices' = <<>>
  /\ currentIndex' = 0
  /\ lastOp' = Did("clearAllFilters", TRUE, FALSE)
  /\ UNCHANGED <<files, history, activeFileId>>
  /\ StoreOnly

CommitFilterToData ==
  /\ IF ActiveIndex = 0 \/ ~HasFilters(searchQuery, filterGroups)
     THEN /\ UNCHANGED <<files, history, activeFileId, currentIndex, searchQuery,
                         filterGroups, filteredIndices>>
          /\ lastOp' = Did("commitFilterToData", FALSE, FALSE)
     ELSE LET filteredData ==
                IF Len(filteredIndices) > 0
                THEN [k \in 1..Len(filteredIndices) |->
                        ArrRead(Arr(ActiveFile.data), Num(filteredIndices[k]))]
                ELSE ActiveFile.data
          IN /\ history' = SaveHistory(history, ActiveFile)
             /\ files' = WithActive([ActiveFile EXCEPT !.data = JsonClone(filteredData)])
             /\ searchQuery' = <<>>
             /\ filterGroups' = <<>>
             /\ filteredIndices' = <<>>
             /\ currentIndex' = 0
             /\ lastOp' = Did("commitFilterToData", TRUE, TRUE)
             /\ UNCHANGED activeFileId
  /\ StoreOnly

-----------------------------------------------------------------------------
(* SpecFilter: one file and the filter handlers *)

\* the most rules the filter groups hold together
MaxRules == 2

kStatus == <<"s", "t", "a", "t", "u", "s">>
kStatusDotB == kStatus \o <<".">> \o kB
StatusRecord(x) == Obj(<< <<kStatus, Str(<<x>>)>> >>)
FilterDatasets ==
  {<<>>,
   <<StatusRecord("A"), StatusRecord("A"), StatusRecord("B")>>,
   <<StatusRecord("a"), Null, Str(<<"A">>), Arr(<<Str(<<"A">>)>>)>>,
   <<Obj(<< <<kStatus, Obj(<< <<kB, Str(<<"A">>)>> >>)>> >>), Obj(<< <<kB, Str(<<" ">>)>> >>)>>}
FilterFiles == {File("f1", d, Undef) : d \in FilterDatasets}

Queries == {<<>>, <<" ">>, <<"B">>}
Rules ==
  {Rule(1, kStatus, "equals", <<"A">>),
   Rule(2, kStatus, "notContains", <<"A">>),
   Rule(3, kB, "isEmpty", <<>>),
   Rule(4, kStatusDotB, "equals", <<"A">>)}
RuleIds == {r.id : r \in Rules}
RuleOptions ==
  {[groupId |-> g, forceNewGroup |-> FALSE] : g \in 0..MaxRules}
  \cup {[groupId |-> 0, forceNewGroup |-> TRUE]}

InitFilter == PathIdle /\ TextIdle /\ SchemaIdle /\ BatchIdle /\ StoreIdle /\ WorkerIdle

NextFilter ==
  \/ \E f \in FilterFiles : files = <<>> /\ AddFile(f)
  \/ \E q \in Queries : SetSearchQuery(q)
  \/ \E r \in Rules, o \in RuleOptions :
       /\ Len(AllRules(filterGroups)) < MaxRules
       /\ \A i \in 1..Len(AllRules(filterGroups)) : AllRules(filterGroups)[i].id # r.id
       /\ AddFilterRule(r, o)
  \/ \E id \in RuleIds : RemoveFilterRule(id)
  \/ \E g \in 1..MaxRules : RemoveFilterGroup(g)
  \/ ClearAllFilters
  \/ RecalculateFilteredData

SpecFilter == InitFilter /\ [][NextFilter]_vars

\* the positions (from 0) of the records of data that pass Test, as a set
PositionsWhere(data, Test(_)) == {i - 1 : i \in {j \in 1..Len(data) : Test(data[j])}}
\* s lists exactly the members of S in ascending order
IsAscendingListOf(s, S) ==
  /\ {s[k] : k \in 1..Len(s)} = S
  /\ \A k \in 1..(Len(s) - 1) : s[k] < s[k + 1]
\* every group has a rule the record satisfies, or no rule at all; a record
\* that is no object or array has none of the fields
PassesGroups(record, groups) ==
  \A g \in 1..Len(groups) :
    \/ Len(groups[g].rules) = 0
    \/ \E r \in 1..Len(groups[g].rules) :
         checkRule(IF IsContainer(record) THEN record ELSE Obj(<<>>), groups[g].rules[r])
ContainsQuery(record, query) == Includes(ToLower(JsonStringify(record)), ToLower(query))

\* C3 as claimed: after recalculateFilteredData with an active filter (a query
\* that is not empty, or a rule), filteredIndices lists in ascending order
\* exactly the positions of the records that contain the query in their
\* serialized form, case-insensitively, or the query is empty, and that pass
\* every group.
C3_Original ==
  (/\ lastOp.op = "recalculateFilteredData" /\ ActiveIndex # 0
   /\ (searchQuery # <<>> \/ Len(AllRules(filterGroups)) > 0))
  => IsAscendingListOf(filteredIndices,
       PositionsWhere(ActiveFile.data,
         LAMBDA record : /\ (searchQuery = <<>> \/ ContainsQuery(record, searchQuery))
                         /\ PassesGroups(record, filterGroups)))

\* C3 amended: the filter is active when the query is not blank or there is a
\* rule; only records that are objects or arrays can match; a blank query
\* matches every such record; a query that is not blank is matched untrimmed.
C3_FilteredIndices ==
  (/\ lastOp.op = "recalculateFilteredData" /\ ActiveIndex # 0
   /\ (Trim(searchQuery) # <<>> \/ Len(AllRules(filterGroups)) > 0))
  => IsAscendingListOf(filteredIndices,
       PositionsWhere(ActiveFile.data,
         LAMBDA record : /\ IsContainer(record)
                         /\ (Trim(searchQuery) = <<>> \/ ContainsQuery(record, searchQuery))
                         /\ PassesGroups(record, filterGroups)))

\* the scenario: status A, A, B under the one rule status equals A matches
\* positions 0 and 1
C3_Witness ==
  /\ lastOp.op = "recalculateFilteredData" /\ ActiveIndex # 0
  /\ ActiveFile.data = <<StatusRecord("A"), StatusRecord("A"), StatusRecord("B")>>
  /\ filterGroups = <<[id |-> 1, rules |-> <<Rule(1, kStatus, "equals", <<"A">>)>>]>>
  /\ filteredIndices = <<0, 1>>

-----------------------------------------------------------------------------
(* SpecStore: one file under the record handlers, the recorded handlers,   *)
(* the commit of a filter, undo and redo                                    *)

\* the most snapshots the recorded handlers push on a file's past
MaxPast == 1

sX == <<"x">>
sY == <<"y">>
StoreDataset == << Obj(<< <<kA, Str(sX)>>, <<kB, Str(sY)>> >>), Obj(<< <<kB, Str(sX)>> >>) >>
StoreFiles == {File("f1", StoreDataset, o) : o \in {Undef, KeyList(<<kA, kB>>)}}
NewDataset == << Obj(<< <<kB, Str(sY)>>, <<kA, Num(7)>> >>) >>
StoreQueries == {sX, <<"q">>}

\* a recorded handler may run while the active file's past has room
PastHasRoom == activeFileId # NoFile /\ Len(history[activeFileId].past) < MaxPast

InitStore == PathIdle /\ TextIdle /\ SchemaIdle /\ BatchIdle /\ StoreIdle /\ WorkerIdle

NextStore ==
  \/ \E f \in StoreFiles : files = <<>> /\ AddFile(f)
  \/ \E id \in {files[i].id : i \in 1..Len(files)} : SetActiveFile(id)
  \/ \E id \in {files[i].id : i \in 1..Len(files)} : RemoveFile(id)
  \/ \E i \in -1..2 : SetIndex(i)
  \/ \E saveHistory \in BOOLEAN :
       (saveHistory => PastHasRoom) /\ ReplaceActiveFileData(NewDataset, saveHistory)
  \/ \E id \in FileIds : PastHasRoom /\ ReplaceFileData(id, NewDataset)
  \/ (PastHasRoom /\ ReorderKeys(<<kB, kA>>))
  \/ (PastHasRoom /\ BatchRenameField(kA, kC))
  \/ (PastHasRoom /\ BatchDeleteField(kA))
  \/ (PastHasRoom /\ StoreNestFields(<<kA>>, kN))
  \/ \E q \in StoreQueries : SetSearchQuery(q)
  \/ ClearAllFilters
  \/ (PastHasRoom /\ CommitFilterToData)
  \/ Undo
  \/ Redo

SpecStore == InitStore /\ [][NextStore]_vars

\* C4: a commitFilterToData that runs with an active filter leaves as the
\* active dataset exactly the records at filteredIndices, in that order (none
\* when nothing matched), and leaves the query, the groups and filteredIndices
\* empty.
C4_CommitKeepsMatched ==
  [][lastOp'.op = "commitFilterToData" =>
       /\ ActiveFile'.data = [k \in 1..Len(filteredIndices) |->
                                ArrRead(Arr(ActiveFile.data), Num(filteredIndices[k]))]
       /\ searchQuery' = <<>>
       /\ filterGroups' = <<>>
       /\ filteredIndices' = <<>>]_vars

\* C5: an undo that directly follows a recorded handler puts back the active
\* file's records and its key order as they were before that handler.
C5_UndoRestores ==
  [][(lastOp.recorded /\ lastOp'.op = "undo") =>
       /\ ActiveFile'.data = lastOp.before.data
       /\ ActiveFile'.keyOrder = lastOp.before.keyOrder]_vars

-----------------------------------------------------------------------------
(* SpecHist: one file whose only record is a revision number; each recorded *)
(* replacement writes the next revision, so that a long history is reached  *)

\* the last revision written
MaxRev == 53

Revision(n) == <<Num(n)>>
CurrentRev == ActiveFile.data[1].v

InitHist == PathIdle /\ TextIdle /\ SchemaIdle /\ BatchIdle /\ StoreIdle /\ WorkerIdle

NextHist ==
  \/ (files = <<>> /\ AddFile(File("f1", Revision(0), Undef)))
  \/ (ActiveIndex # 0 /\ CurrentRev < MaxRev
      /\ ReplaceActiveFileData(Revision(CurrentRev + 1), TRUE))
  \/ (ActiveIndex # 0 /\ CurrentRev < MaxRev
      /\ ReplaceFileData(activeFileId, Revision(CurrentRev + 1)))
  \/ Undo
  \/ Redo

SpecHist == InitHist /\ [][NextHist]_vars

\* C6: no file's past ever holds more than MAX_HISTORY snapshots, whatever the
\* order of recorded handlers, undo and redo; and a recorded handler that finds
\* the past full drops its oldest snapshot and keeps the others, in order,
\* under the new one.
C6_PastBounded ==
  /\ [](\A id \in FileIds : Len(history[id].past) <= MAX_HISTORY)
  /\ [][(/\ lastOp'.op = "recorded"
         /\ Len(history[activeFileId].past) = MAX_HISTORY)
        => history'[activeFileId].past
             = Tail(history[activeFileId].past)
               \o <<[data |-> ActiveFile.data, keyOrder |-> ActiveFile.keyOrder]>>]_vars

\* a recorded handler found the past full: revision 0 is gone, revision 1 is
\* now the oldest of 50 snapshots
C6_Witness ==
  /\ lastOp.op = "recorded"
  /\ Len(history["f1"].past) = MAX_HISTORY
  /\ history["f1"].past[1].data = Revision(1)
  /\ history["f1"].past[MAX_HISTORY].data = Revision(50)
  /\ ActiveFile.data = Revision(51)

-----------------------------------------------------------------------------
(* The worker client (utils/workerClient.ts), the worker's onmessage         *)
(* (workers/dataWorker.ts) and BatchPanel's executeBatch                     *)
(*                                                                           *)
(* pending and progressHandlers are the client's two maps, as sets of        *)
(* <<id, entry>>: pending[id] is the promise request(id) returned, named by  *)
(* the id of that request, and progressHandlers[id] is the handler that      *)
(* request registered. workerInbox and clientInbox are the messages posted   *)
(* and not yet handled. usedIds are the ids issued so far. resolvedBy logs   *)
(* each resolution [promise, response] and progressSeen each call of a       *)
(* progress handler [handler, response]. loading is BatchPanel's state and   *)
(* jobs are the runs of executeBatch.                                        *)

MapHas(m, k) == \E e \in m : e[1] = k
MapGet(m, k) == (CHOOSE e \in m : e[1] = k)[2]
MapSet(m, k, x) == {e \in m : e[1] # k} \cup {<<k, x>>}
MapDelete(m, k) == {e \in m : e[1] # k}

Progress(id, percent) == [id |-> id, type |-> "progress", payload |-> percent]
Response(id, type, payload) == [id |-> id, type |-> type, payload |-> payload]

\* client.request(message, onProgress) on the client's variables
request(message, onProgress) ==
  /\ pending' = MapSet(pending, message.id, message.id)
  /\ progressHandlers' = (IF onProgress THEN MapSet(progressHandlers, message.id, message.id)
                          ELSE progressHandlers)
  /\ workerInbox' = Append(workerInbox, message)
  /\ usedIds' = usedIds \cup {message.id}

\* what self.onmessage posts for a message: ok is FALSE when the work throws,
\* mid is the number of progress messages the work itself posts
workerPosts(message, ok, mid) ==
  IF message.type \in {"parse", "stringify"}
  THEN <<Progress(message.id, 0)>>
       \o [i \in 1..mid |-> Progress(message.id, 30)]
       \o (IF ok THEN <<Response(message.id, message.type, <<>>), Progress(message.id, 100)>>
           ELSE <<Response(message.id, "error", <<>>)>>)
  ELSE IF message.type = "batch"
  THEN (IF ok THEN <<Response(message.id, "batch",
                              applyBatch(message.payload.data, message.payload.action))>>
        ELSE <<Response(message.id, "error", <<>>)>>)
  ELSE <<Response(message.id, "error", <<>>)>>

WorkerOnMessage ==
  /\ workerInbox # <<>>
  /\ \E ok \in BOOLEAN, mid \in 0..1 :
       /\ (Head(workerInbox).type = "batch" => mid = 0)
       /\ clientInbox' = clientInbox \o workerPosts(Head(workerInbox), ok, mid)
  /\ workerInbox' = Tail(workerInbox)
  /\ UNCHANGED <<pending, progressHandlers, usedIds, resolvedBy, progressSeen, loading, jobs>>
  /\ UNCHANGED <<pathVars, textVars, schemaVars, batchVars, storeVars>>

\* a client that hands a terminal response to the newest pending promise
\* whatever id the response carries
clientResolves_AnyPending(response) ==
  IF pending # {}
  THEN LET id == CHOOSE k \in {e[1] : e \in pending} : \A e \in pending : k >= e[1]
       IN /\ resolvedBy' = Append(resolvedBy, [promise |-> MapGet(pending, id),
                                               response |-> response])
          /\ pending' = MapDelete(pending, id)
          /\ progressHandlers' = MapDelete(progressHandlers, id)
  ELSE UNCHANGED <<resolvedBy, pending, progressHandlers>>

\* the terminal branch of the client's onmessage
clientResolves(response) ==
  IF MapHas(pending, response.id)
  THEN /\ resolvedBy' = Append(resolvedBy, [promise |-> MapGet(pending, response.id),
                                            response |-> response])
       /\ pending' = MapDelete(pending, response.id)
       /\ progressHandlers' = MapDelete(progressHandlers, response.id)
  ELSE UNCHANGED <<resolvedBy, pending, progressHandlers>>

ClientOnMessage ==
  /\ clientInbox # <<>>
  /\ LET response == Head(clientInbox)
     IN IF response.type = "progress"
        THEN /\ progressSeen' =
                  (IF MapHas(progressHandlers, response.id)
                   THEN Append(progressSeen, [handler |-> MapGet(progressHandlers, response.id),
                                              response |-> response])
                   ELSE progressSeen)
             /\ UNCHANGED <<resolvedBy, pending, progressHandlers>>
        ELSE clientResolves(response) /\ UNCHANGED progressSeen
  /\ clientInbox' = Tail(clientInbox)
  /\ UNCHANGED <<workerInbox, usedIds, loading, jobs>>
  /\ UNCHANGED <<pathVars, textVars, schemaVars, batchVars, storeVars>>

\* crypto.randomUUID(): an id not issued before
FreshId == CHOOSE n \in 1..(Cardinality(usedIds) + 1) : n \notin usedIds

\* stringifyInWorker: a stringify request with a progress handler
StringifyInWorker ==
  /\ ActiveIndex # 0
  /\ request([id |-> FreshId, type |-> "stringify",
              payload |-> [data |-> ActiveFile.data, action |-> [kind |-> "none"]]], TRUE)
  /\ UNCHANGED <<clientInbox, resolvedBy, progressSeen, loading, jobs>>
  /\ UNCHANGED <<pathVars, textVars, schemaVars, batchVars, storeVars>>

\* selectedFileIds.length > 0 ? selectedFileIds : (activeFileId ? [activeFileId] : [])
TargetFileIds(selectedFileIds) ==
  IF Len(selectedFileIds) > 0 THEN selectedFileIds
  ELSE IF activeFileId # NoFile THEN <<activeFileId>> ELSE <<>>

\* for (const fileId of targetFileIds): the targets from the first one the
\* files of the render have
RECURSIVE SkipMissing(_, _)
SkipMissing(targets, fs) ==
  IF targets = <<>> \/ FindFile(fs, Head(targets)) # 0 THEN targets
  ELSE SkipMissing(Tail(targets), fs)

\* executeBatch from the top of a loop turn to its await, for a job that goes
\* on with the given targets: the job it becomes, and the request it sends
NextJob(job, targets) ==
  LET ts == SkipMissing(targets, job.files)
  IN [job EXCEPT !.targets = ts, !.awaiting = IF ts = <<>> THEN 0 ELSE FreshId]
SendNext(job, targets) ==
  LET ts == SkipMissing(targets, job.files)
  IN IF ts = <<>>
     THEN UNCHANGED <<pending, progressHandlers, workerInbox, usedIds>>
     ELSE request([id |-> FreshId, type |-> "batch",
                   payload |-> [data |-> job.files[FindFile(job.files, Head(ts))].data,
                                action |-> job.action]], FALSE)

\* the confirm button that never is disabled
ConfirmDisabled_Never == FALSE

\* disabled={loading || ...} of the confirm buttons
ConfirmDisabled == loading

\* handleConfirm -> executeBatch(action), up to its first await
HandleConfirm(action, selectedFileIds) ==
  /\ ~ConfirmDisabled
  /\ Len(TargetFileIds(selectedFileIds)) # 0
  /\ loading' = TRUE
  /\ LET job == [action |-> action, targets |-> <<>>, awaiting |-> 0,
                 activeFileId |-> activeFileId, files |-> files]
     IN /\ jobs' = Append(jobs, NextJob(job, TargetFileIds(selectedFileIds)))
        /\ SendNext(job, TargetFileIds(selectedFileIds))
  /\ UNCHANGED <<clientInbox, resolvedBy, progressSeen>>
  /\ UNCHANGED <<pathVars, textVars, schemaVars, batchVars, storeVars>>

\* executeBatch of job j from the resolution of its request to the next await
JobResume(j) ==
  /\ jobs[j].awaiting # 0
  /\ \E i \in 1..Len(resolvedBy) :
       /\ resolvedBy[i].promise = jobs[j].awaiting
       /\ LET response == resolvedBy[i].response
              fileId == Head(jobs[j].targets)
          IN IF response.type = "batch"
             THEN IF fileId = jobs[j].activeFileId
                  THEN replaceActiveFileData(response.payload.data, TRUE)
                  ELSE replaceFileData(fileId, response.payload.data)
             ELSE UNCHANGED storeVars
  /\ jobs' = [jobs EXCEPT ![j] = NextJob(jobs[j], Tail(jobs[j].targets))]
  /\ SendNext(jobs[j], Tail(jobs[j].targets))
  /\ UNCHANGED <<clientInbox, resolvedBy, progressSeen, loading>>
  /\ UNCHANGED <<pathVars, textVars, schemaVars, batchVars>>

\* the finally block of executeBatch
JobFinish(j) ==
  /\ jobs[j].awaiting = 0 /\ jobs[j].targets = <<>>
  /\ loading' = FALSE
  /\ jobs' = SubSeq(jobs, 1, j - 1) \o SubSeq(jobs, j + 1, Len(jobs))
  /\ UNCHANGED <<pending, progressHandlers, workerInbox, clientInbox, usedIds,
                 resolvedBy, progressSeen>>
  /\ UNCHANGED <<pathVars, textVars, schemaVars, batchVars, storeVars>>

-----------------------------------------------------------------------------
(* SpecWorker: two files, batch runs and exports over one worker client *)

\* the most requests the client issues
MaxRequests == 3

\* the files, in the order they are added
WorkerFiles == <<File("f1", << Obj(<< <<kA, Str(sX)>> >>) >>, Undef),
                 File("f2", << Obj(<< <<kB, Str(sY)>> >>), Null >>, Undef)>>
WorkerActions == {RenameField(kA, kB)}
Selections == {<<>>, <<"f1", "f2">>}
IdsLeft == MaxRequests - Cardinality(usedIds)

InitWorker == PathIdle /\ TextIdle /\ SchemaIdle /\ BatchIdle /\ StoreIdle /\ WorkerIdle

NextWorker ==
  \/ (Len(files) < Len(WorkerFiles) /\ AddFile(WorkerFiles[Len(files) + 1]))
  \/ \E id \in {files[i].id : i \in 1..Len(files)} : SetActiveFile(id)
  \/ (IdsLeft >= 1 /\ StringifyInWorker)
  \/ \E action \in WorkerActions, selection \in Selections :
       /\ IdsLeft >= Len(TargetFileIds(selection))
       /\ \A i \in 1..Len(selection) : FindFile(files, selection[i]) # 0
       /\ HandleConfirm(action, selection)
  \/ \E j \in 1..Len(jobs) : JobResume(j)
  \/ \E j \in 1..Len(jobs) : JobFinish(j)
  \/ WorkerOnMessage
  \/ ClientOnMessage

SpecWorker == InitWorker /\ [][NextWorker]_vars

\* C7: every promise is resolved by a terminal response that carries its own
\* id, and at most once; a progress handler is only called with progress
\* messages of its own id; a resolved request has no entry left in pending or
\* progressHandlers; and once every message is handled, every request issued
\* has been resolved exactly once.
C7_Correlation ==
  /\ \A i \in 1..Len(resolvedBy) :
       /\ resolvedBy[i].response.id = resolvedBy[i].promise
       /\ resolvedBy[i].response.type # "progress"
       /\ ~MapHas(pending, resolvedBy[i].promise)
       /\ ~MapHas(progressHandlers, resolvedBy[i].promise)
       /\ \A j \in 1..Len(resolvedBy) :
            resolvedBy[j].promise = resolvedBy[i].promise => j = i
  /\ \A i \in 1..Len(progressSeen) :
       /\ progressSeen[i].response.type = "progress"
       /\ progressSeen[i].response.id = progressSeen[i].handler
  /\ (workerInbox = <<>> /\ clientInbox = <<>>) =>
       \A id \in usedIds :
         Cardinality({i \in 1..Len(resolvedBy) : resolvedBy[i].promise = id}) = 1

\* request 1 is resolved while request 2 is pending, a progress handler has
\* been called, and a late progress message of request 1 is still to come
C7_Witness ==
  /\ \E i \in 1..Len(resolvedBy) : resolvedBy[i].promise = 1
  /\ MapHas(pending, 2)
  /\ Len(progressSeen) > 0
  /\ \E k \in 1..Len(clientInbox) : clientInbox[k].id = 1 /\ clientInbox[k].type = "progress"
  /\ \E k \in 1..Len(clientInbox) : clientInbox[k].id = 2

\* the batch requests in flight whose result will replace the records of f
InFlightFor(f) ==
  {j \in 1..Len(jobs) : jobs[j].awaiting # 0 /\ Head(jobs[j].targets) = f}

\* C8: no two batch requests are in flight whose results will replace the
\* records of the same file.
C8_WritesSerialized == \A f \in FileIds : Cardinality(InFlightFor(f)) <= 1

\* a batch request for f2 is in flight after the same run replaced the records
\* of f1, and the confirm button is disabled
C8_Witness ==
  /\ loading /\ ConfirmDisabled
  /\ Cardinality(InFlightFor("f2")) = 1
  /\ Len(history["f1"].past) = 1
  /\ Len(jobs) = 1 /\ jobs[1].targets = <<"f2">>

-----------------------------------------------------------------------------
(* SpecText: escapeStringValue, then unescapeStringValue, on every bounded  *)
(* string                                                                    *)

\* the longest string handed to escapeStringValue
MaxTextLen == 3

TextChars == {"\\", "\"", "\n", "\t", "\r", "'", "n", "x"}
Texts == UNION {[1..n -> TextChars] : n \in 0..MaxTextLen}

InitText ==
  /\ textPhase = "start"
  /\ textIn \in Texts
  /\ textEscaped = <<>> /\ textBack = <<>>
  /\ PathIdle /\ SchemaIdle /\ BatchIdle /\ StoreIdle /\ WorkerIdle

\* textEscaped := escapeStringValue(textIn)
EscapeText ==
  /\ textPhase = "start"
  /\ textEscaped' = escapeStringValue(textIn)
  /\ textPhase' = "escaped"
  /\ UNCHANGED <<textIn, textBack>>
  /\ UNCHANGED <<pathVars, schemaVars, batchVars, storeVars, workerVars>>

\* textBack := unescapeStringValue(textEscaped)
UnescapeText ==
  /\ textPhase = "escaped"
  /\ textBack' = unescapeStringValue(textEscaped)
  /\ textPhase' = "back"
  /\ UNCHANGED <<textIn, textEscaped>>
  /\ UNCHANGED <<pathVars, schemaVars, batchVars, storeVars, workerVars>>

\* textBack := unescapeStringValue(textIn), on text that was never escaped
UnescapeRaw ==
  /\ textPhase = "start"
  /\ textBack' = unescapeStringValue(textIn)
  /\ textPhase' = "raw"
  /\ UNCHANGED <<textIn, textEscaped>>
  /\ UNCHANGED <<pathVars, schemaVars, batchVars, storeVars, workerVars>>

NextText == EscapeText \/ UnescapeText \/ UnescapeRaw
SpecText == InitText /\ [][NextText]_vars

\* C11: unescapeStringValue(escapeStringValue(s)) is s, for every string of
\* double quotes, backslashes, newlines, tabs, carriage returns and other
\* characters in any order.
C11_EscapeRoundTrip == textPhase = "back" => textBack = textIn

\* a backslash followed by the letter n, then a newline: the escaped text has
\* the two spellings side by side and comes back as it was
C11_Witness ==
  /\ textPhase = "back"
  /\ textIn = <<"\\", "n", "\n">>
  /\ textEscaped = <<"\\", "\\", "n", "\\", "n">>
  /\ textBack = textIn

-----------------------------------------------------------------------------
(* Properties of single operations of applyBatch, under SpecBatch *)

\* the text parses to an object or an array once trimmed and bracketed
ParsesToContainer(text) ==
  LET trimmed == Trim(text)
  IN /\ \/ StartsWith(trimmed, <<"{">>) /\ EndsWith(trimmed, <<"}">>)
        \/ StartsWith(trimmed, <<"[">>) /\ EndsWith(trimmed, <<"]">>)
     /\ JsonParse(trimmed).ok
     /\ IsContainer(JsonParse(trimmed).val)
\* some string in x, at any depth, parses to an object or an array
RECURSIVE HasParsableString(_)
HasParsableString(x) ==
  IF x.t = "str" THEN ParsesToContainer(x.v)
  ELSE IF IsContainer(x) THEN \E i \in 1..Len(x.v) :
         HasParsableString(IF IsArray(x) THEN x.v[i] ELSE x.v[i][2])
  ELSE FALSE
\* the fields of a record that parseJSON works on
ParsedFields(record, action) ==
  IF TargetKeysOf(action.targetKeys, action.key) = <<>> THEN ObjKeys(record)
  ELSE SelectSeq(TargetKeysOf(action.targetKeys, action.key), LAMBDA k : ObjHas(record, k))

\* C12: parseJSON run a second time returns the dataset the first run
\* returned, whole-record or with target keys, and the first run leaves no
\* string in the fields it works on that parses to an object or an array.
C12_ParseIdempotent ==
  (batchPhase = "again" /\ batchAction.kind = "parseJSON") =>
    /\ batchAgain = batchOut
    /\ \A i \in 1..Len(batchOut) :
         IsPlainObject(batchData[i]) =>
           \A k \in 1..Len(ParsedFields(batchData[i], batchAction)) :
             ~HasParsableString(ObjGet(batchOut[i], ParsedFields(batchData[i], batchAction)[k]))

\* a field held JSON text with JSON text inside: the first run parsed both
\* levels and the second run changed nothing
C12_Witness ==
  /\ batchPhase = "again" /\ batchAction = ParseJSON(Undef, Undef)
  /\ batchData = << Obj(<< <<kInfo, Str(sListInList)>> >>) >>
  /\ batchOut = << Obj(<< <<kInfo, Arr(<<Arr(<<Num(1)>>)>>)>> >>) >>
  /\ batchAgain = batchOut

-----------------------------------------------------------------------------
(* SpecReadWrite: getAtPath, then setAtPath of the value read at the same   *)
(* path, on every bounded (target, path)                                    *)

InitReadWrite ==
  /\ pathPhase = "start"
  /\ pathTarget \in PathTargets
  /\ pathArg \in Paths
  /\ pathValue = Undef /\ pathResult = Undef /\ pathRead = Undef
  /\ TextIdle /\ SchemaIdle /\ BatchIdle /\ StoreIdle /\ WorkerIdle

\* pathRead := getAtPath(pathTarget, pathArg)
ReadAtPath ==
  /\ pathPhase = "start"
  /\ pathRead' = getAtPath(pathTarget, pathArg)
  /\ pathPhase' = "read"
  /\ UNCHANGED <<pathTarget, pathArg, pathValue, pathResult>>
  /\ UNCHANGED <<textVars, schemaVars, batchVars, storeVars, workerVars>>

\* pathResult := setAtPath(pathTarget, pathArg, pathRead)
WriteBack ==
  /\ pathPhase = "read"
  /\ pathResult' = setAtPath(pathTarget, pathArg, pathRead)
  /\ pathPhase' = "wrote"
  /\ UNCHANGED <<pathTarget, pathArg, pathValue, pathRead>>
  /\ UNCHANGED <<textVars, schemaVars, batchVars, storeVars, workerVars>>

NextReadWrite == ReadAtPath \/ WriteBack
SpecReadWrite == InitReadWrite /\ [][NextReadWrite]_vars

\* a JSON value: null, a string, a number, a list of JSON values with no
\* other property, or a mapping of JSON values
RECURSIVE IsJsonValue(_)
IsJsonValue(x) ==
  IF IsArray(x) THEN x.p = <<>> /\ \A i \in 1..Len(x.v) : IsJsonValue(x.v[i])
  ELSE IF IsPlainObject(x) THEN \A i \in 1..Len(x.v) : IsJsonValue(x.v[i][2])
  ELSE x.t \in {"null", "str", "num", "bool"}
\* every part of the path names a key the mapping reached has, or an index
\* within the list reached
RECURSIVE Addresses(_, _)
Addresses(target, path) ==
  IF path = <<>> THEN TRUE
  ELSE IF IsArray(target)
  THEN /\ PartIndex(Head(path)).t = "num"
       /\ PartIndex(Head(path)).v >= 0 /\ PartIndex(Head(path)).v < Len(target.v)
       /\ Addresses(target.v[PartIndex(Head(path)).v + 1], Tail(path))
  ELSE IF IsPlainObject(target)
  THEN /\ ObjHas(target, PartKey(Head(path)))
       /\ Addresses(ObjGet(target, PartKey(Head(path))), Tail(path))
  ELSE FALSE

\* C13 as claimed: setAtPath(v, p, getAtPath(v, p)) is v for every value and
\* path, also when the path addresses a missing location.
C13_Original == pathPhase = "wrote" => pathResult = pathTarget

\* C13 amended: setAtPath(v, p, getAtPath(v, p)) is v for every JSON value v
\* and every path that addresses an existing location of v.
C13_GetSetNoOp ==
  (pathPhase = "wrote" /\ IsJsonValue(pathTarget) /\ Addresses(pathTarget, pathArg))
    => pathResult = pathTarget

\* the value read two levels down, through a list addressed by a string part
\* and below the first of two keys, was written back and nothing changed
C13_Witness ==
  /\ pathPhase = "wrote"
  /\ pathTarget = Arr(<<Obj(<< <<kA, Null>>, <<kB, Num(7)>> >>)>>)
  /\ pathArg = <<Str(k0), Str(kA)>>
  /\ pathRead = Null
  /\ pathResult = pathTarget

-----------------------------------------------------------------------------
(* setAtPath through a primitive or an absent node, under SpecPath *)

\* the container chain a path needs to hold a value and nothing else: a list
\* up to the index for a number part, a one-key mapping for a string part
RECURSIVE FreshChain(_, _)
FreshChain(path, value) ==
  IF path = <<>> THEN value
  ELSE IF Head(path).t = "num"
  THEN Arr([i \in 1..(Head(path).v + 1) |->
              IF i = Head(path).v + 1 THEN FreshChain(Tail(path), value) ELSE Undef])
  ELSE Obj(<< <<Head(path).v, FreshChain(Tail(path), value)>> >>)
\* the lengths of the prefixes of the path that end on a node of the target
\* which is no container, with parts of the path still to apply
Mismatches(target, path) ==
  {k \in 0..(Len(path) - 1) : ~IsContainer(getAtPath(target, SubSeq(path, 1, k)))}

\* C14: where setAtPath reaches a primitive or an absent node with parts of
\* the path left, the result holds there a fresh container chain for the rest
\* of the path, a list for a number part and a mapping for any other part,
\* and the primitive is gone.
C14_MaterializesContainer ==
  pathPhase = "set" =>
    \A k \in Mismatches(pathTarget, pathArg) :
      (\A j \in Mismatches(pathTarget, pathArg) : k <= j) =>
        getAtPath(pathResult, SubSeq(pathArg, 1, k))
          = FreshChain(SubSeq(pathArg, k + 1, Len(pathArg)), pathValue)

\* setting at ["a", 1] where a holds a string: a now holds a list with a hole
\* and the value, and the string is gone
C14_Witness ==
  /\ pathPhase = "set"
  /\ pathTarget = Obj(<< <<kA, Str(<<"s">>)>>, <<kB, Num(7)>> >>)
  /\ pathArg = <<Str(kA), Num(1)>>
  /\ pathValue = Num(7)
  /\ pathResult = Obj(<< <<kA, Arr(<<Undef, Num(7)>>)>>, <<kB, Num(7)>> >>)

-----------------------------------------------------------------------------
(* SpecRename: renameKeyAtPath on every bounded (target, path, newKey)      *)

\* the entries of the parent written to a new object, the old key under the
\* new name
RECURSIVE RenamedParent(_, _, _, _)
RenamedParent(es, oldKey, newKey, nextParent) ==
  IF es = <<>> THEN nextParent
  ELSE RenamedParent(Tail(es), oldKey, newKey,
                     ObjPut(nextParent,
                            IF Head(es)[1] = oldKey THEN newKey ELSE Head(es)[1],
                            Head(es)[2]))

renameKeyAtPath(target, path, newKey) ==
  IF path = <<>> \/ newKey = <<>> THEN target
  ELSE LET parentPath == SubSeq(path, 1, Len(path) - 1)
           oldKey == PartKey(path[Len(path)])
           parent == getAtPath(target, parentPath)
       IN IF ~IsPlainObject(parent) THEN target
          ELSE IF ~ObjHas(parent, oldKey) THEN target
          ELSE setAtPath(target, parentPath,
                         RenamedParent(parent.v, oldKey, newKey, Obj(<<>>)))

NewKeys == {<<>>, kA, kB, kC, k0}

InitRename ==
  /\ pathPhase = "start"
  /\ pathTarget \in PathTargets
  /\ pathArg \in Paths
  /\ pathValue \in {Str(k) : k \in NewKeys}
  /\ pathResult = Undef /\ pathRead = Undef
  /\ TextIdle /\ SchemaIdle /\ BatchIdle /\ StoreIdle /\ WorkerIdle

\* pathResult := renameKeyAtPath(pathTarget, pathArg, newKey), newKey being
\* the string held in pathValue
RenameKeyAtPath ==
  /\ pathPhase = "start"
  /\ pathResult' = renameKeyAtPath(pathTarget, pathArg, pathValue.v)
  /\ pathPhase' = "renamed"
  /\ UNCHANGED <<pathTarget, pathArg, pathValue, pathRead>>
  /\ UNCHANGED <<textVars, schemaVars, batchVars, storeVars, workerVars>>

NextRename == RenameKeyAtPath
SpecRename == InitRename /\ [][NextRename]_vars

\* the parent of the renamed key, before and after
RenameParentBefore == getAtPath(pathTarget, SubSeq(pathArg, 1, Len(pathArg) - 1))
RenameParentAfter == getAtPath(pathResult, SubSeq(pathArg, 1, Len(pathArg) - 1))
RenameOldKey == PartKey(pathArg[Len(pathArg)])
RenameApplies ==
  /\ pathPhase = "renamed" /\ pathArg # <<>> /\ pathValue.v # <<>>
  /\ IsPlainObject(RenameParentBefore)
  /\ ObjHas(RenameParentBefore, RenameOldKey)
\* the entries of an object whose keys are neither of the two
OtherEntries(o, k1, k2) == SelectSeq(o.v, LAMBDA e : e[1] # k1 /\ e[1] # k2)

\* C15: when renameKeyAtPath applies, the parent has newKey where the old key
\* was, holding the old key's value; the old key is gone; the other keys keep
\* their values and order; for every newKey, also one the parent already has.
C15_RenameKeepsPosition ==
  RenameApplies =>
    /\ IsPlainObject(RenameParentAfter)
    /\ \A p \in 1..Len(RenameParentBefore.v) :
         RenameParentBefore.v[p][1] = RenameOldKey =>
           /\ p <= Len(RenameParentAfter.v)
           /\ RenameParentAfter.v[p] = <<pathValue.v, RenameParentBefore.v[p][2]>>
    /\ (pathValue.v # RenameOldKey => ~ObjHas(RenameParentAfter, RenameOldKey))
    /\ OtherEntries(RenameParentAfter, RenameOldKey, pathValue.v)
         = OtherEntries(RenameParentBefore, RenameOldKey, pathValue.v)

\* the keys of record other than from and to hold in out what they held
OtherFieldsKept(record, out, from, to) ==
  \A k \in 1..Len(ObjKeys(record)) :
    LET key == ObjKeys(record)[k]
    IN (key # from /\ key # to) =>
         ObjHas(out, key) /\ ObjGet(out, key) = ObjGet(record, key)

\* C16: renameField(from, to) returns a record lacking from as it is; for a
\* record that has from, the result has key to holding what from held and
\* every key other than from and to keeps its value, for every from and to.
C16_RenameFieldMovesValue ==
  (batchPhase = "done" /\ batchAction.kind = "renameField") =>
    \A i \in 1..Len(batchData) :
      IsPlainObject(batchData[i]) =>
        IF ~ObjHas(batchData[i], batchAction.from)
        THEN batchOut[i] = batchData[i]
        ELSE /\ ObjHas(batchOut[i], batchAction.to)
             /\ ObjGet(batchOut[i], batchAction.to) = ObjGet(batchData[i], batchAction.from)
             /\ OtherFieldsKept(batchData[i], batchOut[i], batchAction.from, batchAction.to)

\* the first element of the list that is an object or array and whose value
\* at matchKey, converted to a string, is matchValue; Undef when there is none
FirstStringMatch(source, matchKey, matchValue) ==
  LET hits == {i \in 1..Len(source.v) :
                 /\ IsContainer(source.v[i])
                 /\ JsString(getValueByPath(source.v[i], matchKey)) = matchValue}
  IN IF hits = {} THEN Undef
     ELSE source.v[CHOOSE i \in hits : \A j \in hits : i <= j]

\* what the record becomes when the match compares strings
ExtractedByString(record, action) ==
  LET source == getValueByPath(record, action.sourceField)
  IN IF ~IsArray(source) THEN record
     ELSE LET matched == FirstStringMatch(source, action.matchKey, action.matchValue)
          IN IF matched.t = "undef" THEN record
             ELSE IF getValueByPath(matched, action.extractKey).t = "undef" THEN record
             ELSE ObjPut(record, action.targetField, getValueByPath(matched, action.extractKey))

\* C17: extractByCondition takes the first element of the source list whose
\* value at matchKey, converted to a string, equals matchValue, and sets
\* targetField to that element's value at extractKey when it is defined; the
\* record is unchanged when the source is not a list or no element matches.
C17_ExtractMatchesAsString ==
  (batchPhase = "done" /\ batchAction.kind = "extractByCondition") =>
    \A i \in 1..Len(batchData) :
      IsPlainObject(batchData[i]) =>
        batchOut[i] = ExtractedByString(batchData[i], batchAction)

\* the keys of a mapping, as a set
KeySet(obj) == {ObjKeys(obj)[k] : k \in 1..Len(ObjKeys(obj))}
\* out is record after its fields named in sourceFields, other than target,
\* moved into the mapping at target: the moved fields are gone from the top
\* level and sit in the mapping with their values, the mapping keeps what an
\* existing mapping held, it holds nothing else, and no other field changed
NestedInto(record, out, sourceFields, target) ==
  LET moved == {sourceFields[k] : k \in 1..Len(sourceFields)} \ {target}
      existing == ObjGet(record, target)
      kept == IF IsPlainObject(existing) THEN KeySet(existing) \ moved ELSE {}
      nested == ObjGet(out, target)
  IN /\ IsPlainObject(nested)
     /\ \A f \in moved :
          /\ ~ObjHas(out, f)
          /\ ObjHas(record, f) => ObjHas(nested, f) /\ ObjGet(nested, f) = ObjGet(record, f)
     /\ \A key \in kept : ObjHas(nested, key) /\ ObjGet(nested, key) = ObjGet(existing, key)
     /\ KeySet(nested) \subseteq moved \cup kept
     /\ \A key \in KeySet(record) \ (moved \cup {target}) :
          ObjHas(out, key) /\ ObjGet(out, key) = ObjGet(record, key)

\* C18: nestFields with a target and at least one source field moves each
\* named source field of a mapping record into the mapping stored at
\* targetField (an existing mapping is merged into, anything else is
\* replaced by a new mapping) and removes it from the top level; a source
\* field equal to targetField is left out, so the target never holds itself.
C18_NestExcludesTarget ==
  (/\ batchPhase = "done" /\ batchAction.kind = "nestFields"
   /\ batchAction.targetField # <<>> /\ batchAction.sourceFields # <<>>) =>
    \A i \in 1..Len(batchData) :
      IsPlainObject(batchData[i]) =>
        NestedInto(batchData[i], batchOut[i], batchAction.sourceFields, batchAction.targetField)

\* the records of the dataset whose value at key does not coerce to a number
NotNumeric(data, key) ==
  SelectSeq(data, LAMBDA r : /\ IsPlainObject(r) /\ ObjHas(r, key)
                             /\ JsNumber(ObjGet(r, key)).t = "nan")

\* C19: typeConvert(key, number) leaves a record whose value at key coerces
\* to not-a-number as it is and appends one warning naming the value for it;
\* on any other record holding key the value becomes the number, the keys and
\* the other values stay, and no warning is added; every record of the batch
\* is returned.
C19_NumberConvertWarns ==
  (batchPhase = "done" /\ batchAction.kind = "typeConvert" /\ batchAction.target = "number") =>
    /\ Len(batchOut) = Len(batchData)
    /\ \A i \in 1..Len(batchData) :
         (IsPlainObject(batchData[i]) /\ ObjHas(batchData[i], batchAction.key)) =>
           LET current == ObjGet(batchData[i], batchAction.key)
           IN IF JsNumber(current).t = "nan"
              THEN batchOut[i] = batchData[i]
              ELSE /\ ObjGet(batchOut[i], batchAction.key) = JsNumber(current)
                   /\ ObjKeys(batchOut[i]) = ObjKeys(batchData[i])
                   /\ \A key \in KeySet(batchData[i]) \ {batchAction.key} :
                        ObjGet(batchOut[i], key) = ObjGet(batchData[i], key)
    /\ batchWarnings =
         [k \in 1..Len(NotNumeric(batchData, batchAction.key)) |->
            [warning |-> "cannotConvertToNumber",
             value |-> JsString(ObjGet(NotNumeric(batchData, batchAction.key)[k],
                                       batchAction.key))]]

\* [{a:"1", b:"x"}, {a:"x"}] gave [{a:1, b:"x"}, {a:"x"}] and one warning
C19_Witness ==
  /\ batchPhase = "done" /\ batchAction = TypeConvert(kA, "number")
  /\ batchData = << Obj(<< <<kA, Str(<<"1">>)>>, <<kB, Str(<<"x">>)>> >>),
                    Obj(<< <<kA, Str(<<"x">>)>> >>) >>
  /\ batchOut = << Obj(<< <<kA, Num(1)>>, <<kB, Str(<<"x">>)>> >>),
                   Obj(<< <<kA, Str(<<"x">>)>> >>) >>
  /\ batchWarnings = << [warning |-> "cannotConvertToNumber", value |-> <<"x">>] >>

\* the depth left below a child: one less, or unlimited
OneDeeper(depth) == IF depth.t = "num" THEN Num(depth.v - 1) ELSE depth

\* what a flatten of x limited to depth levels has to give, as a sequence of
\* [root, key, value, kind]: a scalar above or at the cutoff ("leaf"), a
\* container at the cutoff ("cut"), or a container with no entry above the
\* cutoff ("empty"), each under the compound key accumulated on the way
RECURSIVE CutEntries(_, _, _, _)
CutEntries(x, root, prefix, depth) ==
  IF ~IsContainer(x)
  THEN << [root |-> root, key |-> prefix, value |-> x, kind |-> "leaf"] >>
  ELSE IF depth.t = "num" /\ depth.v <= 0
  THEN << [root |-> root, key |-> prefix, value |-> x, kind |-> "cut"] >>
  ELSE IF EntriesOf(x) = <<>>
  THEN << [root |-> root, key |-> prefix, value |-> x, kind |-> "empty"] >>
  ELSE ConcatAll([k \in 1..Len(EntriesOf(x)) |->
                    CutEntries(EntriesOf(x)[k][2], root,
                               JoinKey(prefix, EntriesOf(x)[k][1]), OneDeeper(depth))])

\* the cut of what the action flattens: the whole record, or the containers
\* at its target keys, each under its own name unless keepPrefix is false
CutOf(record, action) ==
  LET targetKeys == TargetKeysOf(action.targetKeys, action.targetKey)
      depth == OrElse(action.depth, Infinity)
      keepPrefix == OrElse(action.keepPrefix, Bool(TRUE)).v
      flattened == SelectSeq(targetKeys, LAMBDA t : /\ ObjHas(record, t)
                                                    /\ IsContainer(ObjGet(record, t)))
  IN IF targetKeys = <<>> THEN CutEntries(record, <<>>, <<>>, depth)
     ELSE ConcatAll([k \in 1..Len(flattened) |->
                       CutEntries(ObjGet(record, flattened[k]), flattened[k],
                                  IF keepPrefix THEN flattened[k] ELSE <<>>, depth)])

\* out holds the cut: every scalar above the cutoff and every container at the
\* cutoff is the value of its compound key, and a whole-record flatten has no
\* other key than those of the cut
HoldsCut(record, out, action) ==
  LET cut == CutOf(record, action)
  IN /\ \A k \in 1..Len(cut) :
          cut[k].kind # "empty" =>
            ObjHas(out, cut[k].key) /\ ObjGet(out, cut[k].key) = cut[k].value
     /\ TargetKeysOf(action.targetKeys, action.targetKey) = <<>> =>
          \A key \in KeySet(out) : \E k \in 1..Len(cut) : cut[k].key = key

\* no value of the mapping is a container with at least one entry
NoContainerLeft(out) ==
  \A key \in KeySet(out) :
    ~(IsContainer(ObjGet(out, key)) /\ EntriesOf(ObjGet(out, key)) # <<>>)

\* the compound keys of the cut are pairwise distinct and none of them is the
\* target key of another part
DistinctKeys(record, action) ==
  LET cut == CutOf(record, action)
      targetKeys == TargetKeysOf(action.targetKeys, action.targetKey)
  IN /\ \A j, k \in 1..Len(cut) : j # k => cut[j].key # cut[k].key
     /\ \A k \in 1..Len(cut) : \A t \in 1..Len(targetKeys) :
          cut[k].key = targetKeys[t] => cut[k].root = targetKeys[t]

\* plain flattening: no stripPrefix pass and no label/value detection
PlainFlatten(action) ==
  /\ action.kind = "flattenStrip"
  /\ ~JsTruthy(action.stripPrefix)
  /\ ~OrElse(action.useSmartEAV, Bool(FALSE)).v

-----------------------------------------------------------------------------
(* Empty containers and nulls under flattenStrip, under SpecBatch *)

\* null, {} or []
NullOrEmpty(x) == x.t = "null" \/ (IsContainer(x) /\ EntriesOf(x) = <<>>)

RECURSIVE SumAll(_)
SumAll(ns) == IF ns = <<>> THEN 0 ELSE Head(ns) + SumAll(Tail(ns))

\* how many nulls and empty containers a flatten of x, limited to depth
\* levels, meets as leaves: x itself, or those of its entries (of its value,
\* for a label/value mapping under the smart mode)
RECURSIVE EmptyLeaves(_, _, _)
EmptyLeaves(x, depth, useSmartEAV) ==
  IF NullOrEmpty(x) THEN 1
  ELSE IF ~IsContainer(x) \/ (depth.t = "num" /\ depth.v <= 0) THEN 0
  ELSE IF useSmartEAV /\ isEAVObject(x)
  THEN EmptyLeaves(ObjGet(x, kValue), OneDeeper(depth), useSmartEAV)
  ELSE SumAll([k \in 1..Len(EntriesOf(x)) |->
                 EmptyLeaves(EntriesOf(x)[k][2], OneDeeper(depth), useSmartEAV)])

\* the nulls and empty containers flattenStrip has to keep: those of the whole
\* record's fields, or with target keys those of each targeted container and
\* the other fields that are null or empty themselves
EmptiesToKeep(record, action) ==
  LET targetKeys == TargetKeysOf(action.targetKeys, action.targetKey)
      depth == OrElse(action.depth, Infinity)
      useSmartEAV == OrElse(action.useSmartEAV, Bool(FALSE)).v
      Targeted(key) == \E t \in 1..Len(targetKeys) : targetKeys[t] = key
  IN IF targetKeys = <<>>
     THEN IF EntriesOf(record) = <<>> THEN 0 ELSE EmptyLeaves(record, depth, useSmartEAV)
     ELSE SumAll([k \in 1..Len(record.v) |->
                    IF Targeted(record.v[k][1]) /\ IsContainer(record.v[k][2])
                    THEN EmptyLeaves(record.v[k][2], depth, useSmartEAV)
                    ELSE IF NullOrEmpty(record.v[k][2]) THEN 1 ELSE 0])

\* the entries of the mapping that hold a null or an empty container
EmptiesKept(out) == Cardinality({k \in 1..Len(out.v) : NullOrEmpty(out.v[k][2])})

\* C21: flattenStrip keeps every empty object, empty array and null of what
\* it flattens, and a targeted field that is an empty object or array itself,
\* as one leaf entry of the output record, whatever targetKeys, keepPrefix and
\* useSmartEAV are.
C21_EmptiesKept ==
  (batchPhase = "done" /\ batchAction.kind = "flattenStrip") =>
    \A i \in 1..Len(batchData) :
      IsPlainObject(batchData[i]) =>
        EmptiesKept(batchOut[i]) >= EmptiesToKeep(batchData[i], batchAction)

-----------------------------------------------------------------------------
(* unescapeStringValue on arbitrary text, under SpecText *)

\* the letters that form an escape after a backslash
EscapeLetters == {"n", "t", "r", "\"", "'", "\\"}

\* the text decoded from its head: a backslash and an escape letter give the
\* decoded character and the rest is what follows the pair; any other first
\* character is given as it is and the rest is what follows that character
RECURSIVE DecodedFromLeft(_)
DecodedFromLeft(s) ==
  IF s = <<>> THEN <<>>
  ELSE IF Head(s) = "\\" /\ Len(s) >= 2 /\ s[2] \in EscapeLetters
  THEN << (IF s[2] = "n" THEN "\n" ELSE IF s[2] = "t" THEN "\t"
           ELSE IF s[2] = "r" THEN "\r" ELSE s[2]) >>
       \o DecodedFromLeft(SubSeq(s, 3, Len(s)))
  ELSE <<Head(s)>> \o DecodedFromLeft(Tail(s))

\* C22: unescapeStringValue reads its text from left to right: a backslash
\* followed by n, t, r, a double quote, a single quote or a backslash gives
\* the decoded character and both are passed; a backslash followed by
\* anything else, or at the end, is given unchanged and only it is passed, so
\* the next character is read as an ordinary one.
C22_UnescapeScan == textPhase = "raw" => textBack = DecodedFromLeft(textIn)

\* a backslash before x, then a backslash at the end: both stay, and so does x
C22_Witness ==
  /\ textPhase = "raw"
  /\ textIn = <<"\\", "x", "\\">>
  /\ textBack = <<"\\", "x", "\\">>

-----------------------------------------------------------------------------
(* The field of a filter rule, under SpecFilter *)

\* the value found by going down the mappings along the segments; Undef
\* when a segment is missing or the value on the way is not a mapping
RECURSIVE NestedLookup(_, _)
NestedLookup(x, segments) ==
  IF segments = <<>> THEN x
  ELSE IF ~IsPlainObject(x) \/ ~ObjHas(x, Head(segments)) THEN Undef
  ELSE NestedLookup(ObjGet(x, Head(segments)), Tail(segments))

\* the rule tested on the string form of the value at its dot-joined field
RuleHoldsAtPath(record, rule) ==
  LET fieldValue == JsString(OrElse(NestedLookup(record, Split(rule.field, ".")), Str(<<>>)))
  IN IF rule.operator = "equals" THEN fieldValue = rule.value
     ELSE IF rule.operator = "contains" THEN Includes(ToLower(fieldValue), ToLower(rule.value))
     ELSE IF rule.operator = "notContains"
     THEN ~Includes(ToLower(fieldValue), ToLower(rule.value))
     ELSE IF rule.operator = "isEmpty" THEN Trim(fieldValue) = <<>>
     ELSE TRUE
PassesGroupsAtPath(record, groups) ==
  \A g \in 1..Len(groups) :
    \/ Len(groups[g].rules) = 0
    \/ \E r \in 1..Len(groups[g].rules) : RuleHoldsAtPath(record, groups[g].rules[r])

\* C23: the field of a rule is a dot-joined path followed through nested
\* mappings (never into a list) and the rule is tested on the string form of
\* the value found, the empty string when there is none: after
\* recalculateFilteredData the matched positions are those of the records
\* that pass every group under this reading (the rule status.b equals A
\* matches the record {status:{b:"A"}}).
C23_RuleFieldPath ==
  (/\ lastOp.op = "recalculateFilteredData" /\ ActiveIndex # 0
   /\ Len(AllRules(filterGroups)) > 0)
  => IsAscendingListOf(filteredIndices,
       PositionsWhere(ActiveFile.data,
         LAMBDA record : /\ IsContainer(record)
                         /\ (Trim(searchQuery) = <<>> \/ ContainsQuery(record, searchQuery))
                         /\ PassesGroupsAtPath(record, filterGroups)))

-----------------------------------------------------------------------------
(* The filter groups as a partition of the rules, under SpecFilter *)

\* the ids of the groups that hold a rule with this id
GroupsHolding(groups, ruleId) ==
  {groups[g].id : g \in {h \in 1..Len(groups) :
                           \E r \in 1..Len(groups[h].rules) : groups[h].rules[r].id = ruleId}}
\* the ids of the rules in the groups
RuleIdsIn(groups) == {AllRules(groups)[i].id : i \in 1..Len(AllRules(groups))}
\* no group is empty and no rule id occurs twice
IsPartition(groups) ==
  /\ \A g \in 1..Len(groups) : Len(groups[g].rules) > 0
  /\ \A g, h \in 1..Len(groups) : g # h => groups[g].id # groups[h].id
  /\ \A i, j \in 1..Len(AllRules(groups)) :
       i # j => AllRules(groups)[i].id # AllRules(groups)[j].id
\* the ids of the groups that hold a rule on this field
GroupsOnField(groups, field) ==
  {groups[g].id : g \in {h \in 1..Len(groups) :
                           \E r \in 1..Len(groups[h].rules) : groups[h].rules[r].field = field}}
\* every rule of before other than ruleId is after in the group it was in
OthersStay(before, after, ruleId) ==
  \A id \in RuleIdsIn(before) \ {ruleId} :
    GroupsHolding(after, id) = GroupsHolding(before, id)

\* what the claim asks of an addFilterRule of rule under options
AddedToOneGroup(before, after, rule, options) ==
  /\ IsPartition(after)
  /\ Cardinality(GroupsHolding(after, rule.id)) = 1
  /\ OthersStay(before, after, rule.id)
  /\ (options.groupId = 0 /\ ~options.forceNewGroup /\ GroupsOnField(before, rule.field) # {})
       => GroupsHolding(after, rule.id) \subseteq GroupsOnField(before, rule.field)
\* what the claim asks of a removeFilterRule
RuleRemoved(before, after, ruleId) ==
  /\ IsPartition(after)
  /\ GroupsHolding(after, ruleId) = {}
  /\ OthersStay(before, after, ruleId)
  /\ \A g \in 1..Len(before) :
       (\A r \in 1..Len(before[g].rules) : before[g].rules[r].id = ruleId)
         => \A h \in 1..Len(after) : after[h].id # before[g].id
\* what the claim asks of a removeFilterGroup
GroupRemoved(before, after, groupId) ==
  /\ IsPartition(after)
  /\ after = SelectSeq(before, LAMBDA x : x.id # groupId)

\* C24 as claimed: every addFilterRule (default, with a groupId, or forcing a
\* new group) leaves the rule in exactly one group and the other rules where
\* they were, a default-added rule whose field occurs in a group joins such a
\* group, removeFilterRule takes the rule out and with it a group left
\* empty, removeFilterGroup takes the group out, and the groups stay a
\* partition of the rules into non-empty groups.
C24_Original ==
  [][/\ lastOp'.call = "addFilterRule" =>
          AddedToOneGroup(filterGroups, filterGroups', lastOp'.args.rule, lastOp'.args.options)
     /\ lastOp'.call = "removeFilterRule" =>
          RuleRemoved(filterGroups, filterGroups', lastOp'.args.ruleId)
     /\ lastOp'.call = "removeFilterGroup" =>
          GroupRemoved(filterGroups, filterGroups', lastOp'.args.groupId)]_vars

\* the groupId of the options is absent or names one of the groups
NamesNoMissingGroup(groups, options) ==
  options.groupId = 0 \/ \E g \in 1..Len(groups) : groups[g].id = options.groupId

\* C24 amended: the same, where an addFilterRule whose groupId names no group
\* adds nothing and leaves the groups as they are.
C24_GroupsPartition ==
  [][/\ lastOp'.call = "addFilterRule" =>
          IF NamesNoMissingGroup(filterGroups, lastOp'.args.options)
          THEN AddedToOneGroup(filterGroups, filterGroups',
                               lastOp'.args.rule, lastOp'.args.options)
          ELSE filterGroups' = filterGroups
     /\ lastOp'.call = "removeFilterRule" =>
          RuleRemoved(filterGroups, filterGroups', lastOp'.args.ruleId)
     /\ lastOp'.call = "removeFilterGroup" =>
          GroupRemoved(filterGroups, filterGroups', lastOp'.args.groupId)]_vars

\* a second rule on status, added by default, joined the group of the first
C24_Witness ==
  /\ lastOp.call = "addFilterRule"
  /\ lastOp.args.options = [groupId |-> 0, forceNewGroup |-> FALSE]
  /\ lastOp.args.rule = Rule(2, kStatus, "notContains", <<"A">>)
  /\ filterGroups = << [id |-> 1, rules |-> << Rule(1, kStatus, "equals", <<"A">>),
                                               Rule(2, kStatus, "notContains", <<"A">>) >>] >>

-----------------------------------------------------------------------------
(* Operations with a missing field name, under SpecBatch *)

\* a required field name of the action is empty
MissingFieldName(action) ==
  \/ action.kind = "addField" /\ action.key = <<>>
  \/ action.kind = "renameField" /\ (action.from = <<>> \/ action.to = <<>>)
  \/ action.kind = "nestFields" /\ action.targetField = <<>>

\* C25: an operation whose required field name (the key of addField, the
\* from or the to of renameField, the targetField of nestFields) is empty
\* changes nothing: every record of the output is the record of the input.
C25_MissingNameNoOp ==
  (batchPhase = "done" /\ MissingFieldName(batchAction)) => batchOut = batchData

-----------------------------------------------------------------------------
(* The schema tree of the drill-down picker (buildSchemaTree)                *)
(*                                                                           *)
(* A SchemaNode is [type |-> "value"], [type |-> "array", item,              *)
(* distinctValues] or [type |-> "object", keys], keys being the entries      *)
(* <<key, node>> in property order; distinctValues is Undef or the entries   *)
(* <<key, texts>>.                                                           *)

DEFAULT_MAX_DEPTH == 6
DEFAULT_SAMPLE_LIMIT == 50
DISTINCT_VALUE_LIMIT == 40
kType == <<"t", "y", "p", "e">>
kCategory == <<"c", "a", "t", "e", "g", "o", "r", "y">>
kName == <<"n", "a", "m", "e">>
DISTINCT_KEYS == <<kLabel, kType, kCategory, kName>>

ValueNode == [type |-> "value"]

\* JSON.parse of a string, the string itself when it does not parse
parseMaybeJSON(value) ==
  IF value.t # "str" THEN value
  ELSE LET parsed == JsonParse(value.v)
       IN IF parsed.ok THEN parsed.val ELSE value

stringifyValue(value) ==
  IF value.t \in {"null", "undef"} THEN <<>>
  ELSE IF value.t = "str" THEN value.v
  ELSE IF value.t \in {"num", "bool"} THEN JsString(value)
  ELSE JsonStringify(value)

\* the elements of the array samples, in order
RECURSIVE ArrayItems(_)
ArrayItems(parsedSamples) ==
  IF parsedSamples = <<>> THEN <<>>
  ELSE (IF IsArray(Head(parsedSamples)) THEN Head(parsedSamples).v ELSE <<>>)
       \o ArrayItems(Tail(parsedSamples))

\* distinctValues[key].add(valueText) below the limit
AddDistinct(distinctValues, key, valueText) ==
  LET had == IF ObjHas(distinctValues, key) THEN ObjGet(distinctValues, key) ELSE <<>>
  IN IF Len(had) < DISTINCT_VALUE_LIMIT /\ \A i \in 1..Len(had) : had[i] # valueText
     THEN ObjPut(distinctValues, key, Append(had, valueText))
     ELSE ObjPut(distinctValues, key, had)

RECURSIVE DistinctOfItem(_, _, _)
DistinctOfItem(record, keys, distinctValues) ==
  IF keys = <<>> THEN distinctValues
  ELSE LET raw == ObjGet(record, Head(keys))
           valueText == stringifyValue(raw)
       IN DistinctOfItem(record, Tail(keys),
            IF raw.t \in {"undef", "null"} \/ valueText = <<>> THEN distinctValues
            ELSE AddDistinct(distinctValues, Head(keys), valueText))

RECURSIVE CollectDistinct(_, _)
CollectDistinct(items, distinctValues) ==
  IF items = <<>> THEN distinctValues
  ELSE CollectDistinct(Tail(items),
         IF IsPlainObject(Head(items))
         THEN DistinctOfItem(Head(items), DISTINCT_KEYS, distinctValues)
         ELSE distinctValues)

\* grouped[key].push(child) for every entry of every object sample
RECURSIVE GroupEntries(_, _)
GroupEntries(es, grouped) ==
  IF es = <<>> THEN grouped
  ELSE LET key == Head(es)[1]
           had == IF ObjHas(grouped, key) THEN ObjGet(grouped, key) ELSE <<>>
       IN GroupEntries(Tail(es), ObjPut(grouped, key, Append(had, Head(es)[2])))

RECURSIVE GroupSamples(_, _)
GroupSamples(parsedSamples, grouped) ==
  IF parsedSamples = <<>> THEN grouped
  ELSE GroupSamples(Tail(parsedSamples),
         IF IsPlainObject(Head(parsedSamples))
         THEN GroupEntries(Head(parsedSamples).v, grouped)
         ELSE grouped)

\* a cutoff that lets one more level through
DepthExhausted_OneLate(depth, maxDepth) == depth > maxDepth
\* depth >= maxDepth
DepthExhausted(depth, maxDepth) == depth >= maxDepth

RECURSIVE buildSchemaTree(_, _, _)
buildSchemaTree(samples, depth, maxDepth) ==
  IF DepthExhausted(depth, maxDepth) THEN ValueNode
  ELSE
  LET nonEmpty == SelectSeq(samples, LAMBDA value : value.t \notin {"null", "undef"})
      parsedSamples == [i \in 1..Len(nonEmpty) |-> parseMaybeJSON(nonEmpty[i])]
      hasArray == \E i \in 1..Len(parsedSamples) : IsArray(parsedSamples[i])
      hasObject == \E i \in 1..Len(parsedSamples) : IsPlainObject(parsedSamples[i])
  IN IF Len(nonEmpty) = 0 THEN ValueNode
     ELSE IF hasArray
     THEN LET items == ArrayItems(parsedSamples)
              distinctValues == CollectDistinct(items, Obj(<<>>))
              limitedItems == SubSeq(items, 1, Min2(Len(items), DEFAULT_SAMPLE_LIMIT))
          IN [type |-> "array",
              item |-> buildSchemaTree(limitedItems, depth + 1, maxDepth),
              distinctValues |-> IF Len(distinctValues.v) > 0 THEN distinctValues.v
                                 ELSE Undef]
     ELSE IF hasObject
     THEN LET grouped == GroupSamples(parsedSamples, Obj(<<>>))
          IN [type |-> "object",
              keys |-> [i \in 1..Len(grouped.v) |->
                          <<grouped.v[i][1],
                            buildSchemaTree(grouped.v[i][2], depth + 1, maxDepth)>>]]
     ELSE ValueNode

\* objects nested n deep around a number
RECURSIVE Chain(_)
Chain(n) == IF n = 0 THEN Num(1) ELSE Obj(<< <<kA, Chain(n - 1)>> >>)

MaxSamples == 2
SchemaValues ==
  << Null, Undef, Num(1), Str(<<"x">>), Str(<<"n", "u", "l", "l">>),
     Str(<<"[", "1", "]">>),
     Str(<<"{", "\"", "a", "\"", ":", "[", "{", "}", "]", "}">>),
     Arr(<<>>),
     Arr(<< Obj(<< <<kLabel, Str(<<"x">>)>>, <<kA, Arr(<<Num(1)>>)>> >>),
            Obj(<< <<kLabel, Num(1)>>, <<kName, Null>> >>) >>),
     Obj(<< <<kA, Obj(<< <<kB, Arr(<<Null>>)>> >>)>>, <<kB, Null>> >>),
     Chain(DEFAULT_MAX_DEPTH + 1) >>
SchemaDepths == {0, 1, 2, 3, DEFAULT_MAX_DEPTH}
SampleLists ==
  UNION {[1..n -> 1..Len(SchemaValues)] : n \in 0..MaxSamples}

InitSchema ==
  /\ schemaPhase = "start"
  /\ \E ix \in SampleLists : schemaSamples = [k \in 1..Len(ix) |-> SchemaValues[ix[k]]]
  /\ schemaMaxDepth \in SchemaDepths
  /\ schemaTree = [type |-> "none"]
  /\ PathIdle /\ TextIdle /\ BatchIdle /\ StoreIdle /\ WorkerIdle

\* schemaTree := buildSchemaTree(schemaSamples, 0, schemaMaxDepth)
BuildSchema ==
  /\ schemaPhase = "start"
  /\ schemaTree' = buildSchemaTree(schemaSamples, 0, schemaMaxDepth)
  /\ schemaPhase' = "built"
  /\ UNCHANGED <<schemaSamples, schemaMaxDepth>>
  /\ UNCHANGED <<pathVars, textVars, batchVars, storeVars, workerVars>>

NextSchema == BuildSchema
SpecSchema == InitSchema /\ [][NextSchema]_vars

\* every node at depth maxDepth or beyond is a value leaf
RECURSIVE CutAt(_, _, _)
CutAt(node, depth, maxDepth) ==
  IF depth >= maxDepth THEN node = ValueNode
  ELSE IF node.type = "array" THEN CutAt(node.item, depth + 1, maxDepth)
  ELSE IF node.type = "object"
  THEN \A i \in 1..Len(node.keys) : CutAt(node.keys[i][2], depth + 1, maxDepth)
  ELSE node = ValueNode

\* the depth of the deepest node, the root being at depth 0
RECURSIVE Height(_)
RECURSIVE MaxHeight(_)
MaxHeight(entries) ==
  IF entries = <<>> THEN -1
  ELSE LET h == Height(Head(entries)[2])
           r == MaxHeight(Tail(entries))
       IN IF h > r THEN h ELSE r
Height(node) ==
  IF node.type = "array" THEN 1 + Height(node.item)
  ELSE IF node.type = "object" THEN 1 + MaxHeight(node.keys)
  ELSE 0

AllNullish(samples) == \A i \in 1..Len(samples) : samples[i].t \in {"null", "undef"}

\* C26: the tree buildSchemaTree returns is never deeper than maxDepth, a node
\* at depth maxDepth is a value leaf, and samples that are all null or
\* undefined give a value leaf.
C26_SchemaDepthBounded ==
  schemaPhase = "built" =>
    /\ Height(schemaTree) <= schemaMaxDepth
    /\ CutAt(schemaTree, 0, schemaMaxDepth)
    /\ (AllNullish(schemaSamples) => schemaTree = ValueNode)

\* the default depth cuts a sample nested one level deeper
C26_Witness ==
  /\ schemaPhase = "built"
  /\ schemaMaxDepth = DEFAULT_MAX_DEPTH
  /\ schemaSamples = <<Chain(DEFAULT_MAX_DEPTH + 1)>>
  /\ Height(schemaTree) = DEFAULT_MAX_DEPTH

-----------------------------------------------------------------------------
(* SpecView: two files, the second one empty, under the handlers that change *)
(* the active file, its records, its history and the filter                  *)

ViewFiles == {File("f1", StoreDataset, Undef), File("f2", <<>>, Undef)}
ViewQueries == {<<>>, sX}
ViewRule == Rule(1, kA, "equals", sX)
ViewOptions == [groupId |-> 0, forceNewGroup |-> FALSE]
OpenIds == {files[i].id : i \in 1..Len(files)}

\* a recorded handler may run on a file whose past has room
RoomIn(id) == FindFile(files, id) # 0 /\ Len(history[id].past) < MaxPast

InitView == PathIdle /\ TextIdle /\ SchemaIdle /\ BatchIdle /\ StoreIdle /\ WorkerIdle

NextView ==
  \/ \E f \in ViewFiles : FindFile(files, f.id) = 0 /\ AddFile(f)
  \/ \E id \in OpenIds : SetActiveFile(id)
  \/ \E id \in OpenIds : RemoveFile(id)
  \/ (RoomIn(activeFileId) /\ ReplaceActiveFileData(NewDataset, TRUE))
  \/ UpdateRecord(0, NewDataset[1])
  \/ (ActiveIndex # 0 /\ Len(ActiveFile.data) < MaxRecords /\ AppendActiveRecord(NewDataset[1]))
  \/ \E q \in ViewQueries : SetSearchQuery(q)
  \/ (filterGroups = <<>> /\ AddFilterRule(ViewRule, ViewOptions))
  \/ RemoveFilterRule(ViewRule.id)
  \/ Undo
  \/ Redo

SpecView == InitView /\ [][NextView]_vars

\* C27: while a filter is active, filteredIndices lists in ascending order the
\* positions of the active file's current records that match it.
C27_FilteredIndicesCurrent ==
  HasFilters(searchQuery, filterGroups) =>
    filteredIndices =
      recalculateFilteredData(files, activeFileId, searchQuery, filterGroups,
                              currentIndex).filteredIndices

-----------------------------------------------------------------------------
(* SpecRace: batch runs over two files while the user switches and removes   *)
(* files                                                                     *)

NextRace ==
  \/ (/\ Len(files) < Len(WorkerFiles)
      /\ FindFile(files, WorkerFiles[Len(files) + 1].id) = 0
      /\ AddFile(WorkerFiles[Len(files) + 1]))
  \/ \E id \in OpenIds : SetActiveFile(id)
  \/ \E id \in OpenIds : RemoveFile(id)
  \/ \E action \in WorkerActions, selection \in Selections :
       /\ IdsLeft >= Len(TargetFileIds(selection))
       /\ \A i \in 1..Len(selection) : FindFile(files, selection[i]) # 0
       /\ HandleConfirm(action, selection)
  \/ \E j \in 1..Len(jobs) : JobResume(j)
  \/ \E j \in 1..Len(jobs) : JobFinish(j)
  \/ WorkerOnMessage
  \/ ClientOnMessage

SpecRace == InitWorker /\ [][NextRace]_vars

\* the response that resolved the request job j awaits
ResponseOf(j) ==
  resolvedBy[CHOOSE i \in 1..Len(resolvedBy) : resolvedBy[i].promise = jobs[j].awaiting].response

\* the step is job j going on after its request was resolved
Resumes(j) == Len(jobs') = Len(jobs) /\ jobs'[j] # jobs[j]

\* C28: when a batch response arrives, its records replace the records of the
\* file whose records the request carried, if the store still has it, and the
\* records of no other file change.
C28_ResponseToSentDataset ==
  [][\A j \in 1..Len(jobs) :
       (Resumes(j) /\ ResponseOf(j).type = "batch") =>
         LET sent == Head(jobs[j].targets)
         IN /\ Len(files') = Len(files)
            /\ \A i \in 1..Len(files) :
                 files'[i].data = IF files[i].id = sent THEN ResponseOf(j).payload.data
                                  ELSE files[i].data]_vars

-----------------------------------------------------------------------------
(* SpecIndex: one file, with two records or none, under the handlers that    *)
(* write currentIndex                                                        *)

IndexFiles == {File("f1", StoreDataset, Undef), File("f1", <<>>, Undef)}

NextIndex ==
  \/ \E f \in IndexFiles : files = <<>> /\ AddFile(f)
  \/ \E i \in -1..2 : SetIndex(i)
  \/ \E q \in ViewQueries : SetSearchQuery(q)
  \/ (filterGroups = <<>> /\ AddFilterRule(ViewRule, ViewOptions))
  \/ RemoveFilterRule(ViewRule.id)
  \/ \E data \in {NewDataset, <<>>} :
       RoomIn(activeFileId) /\ ReplaceActiveFileData(data, TRUE)
  \/ (RoomIn(activeFileId) /\ CommitFilterToData)
  \/ Undo
  \/ Redo

SpecIndex == InitView /\ [][NextIndex]_vars

\* getFilteredData().length: the filtered view while a filter is active, else
\* the active file's records
DisplayedLength ==
  IF ActiveIndex = 0 THEN 0
  ELSE IF HasFilters(searchQuery, filterGroups) THEN Len(filteredIndices)
  ELSE Len(ActiveFile.data)

\* C29: currentIndex is never negative, and it is a position of the displayed
\* list whenever that list has a record.
C29_IndexInDisplayedList ==
  /\ currentIndex >= 0
  /\ DisplayedLength > 0 => currentIndex < DisplayedLength

-----------------------------------------------------------------------------
(* The store's extraction handlers: batchConvertField, smartExtract and      *)
(* extractByPath, with the helpers at the end of fileStore.ts                *)

\* const name = value, for a value the expression after it reads more than once
Bind(value, In(_)) == In(value)

normalizeArray(value) ==
  IF IsArray(value) THEN value
  ELSE IF value.t = "str"
  THEN Bind(JsonParse(value.v),
            LAMBDA parsed : IF parsed.ok /\ IsArray(parsed.val) THEN parsed.val ELSE Null)
  ELSE Null

normalizeObject(value) ==
  IF ~JsTruthy(value) THEN Null
  ELSE IF IsPlainObject(value) THEN value
  ELSE IF value.t = "str"
  THEN Bind(JsonParse(value.v),
            LAMBDA parsed : IF parsed.ok /\ IsPlainObject(parsed.val) THEN parsed.val ELSE Null)
  ELSE Null

\* the store's getValueByPath and getValueAtPath
storeGetValueByPath(target, path) ==
  IF path = <<>> THEN Undef
  ELSE getValueBySegments(target, SelectSeq(Split(path, "."), LAMBDA seg : seg # <<>>))

\* items.find(test): the first item that passes, or undefined
FindFirst(items, Test(_)) ==
  IF \E i \in 1..Len(items) : Test(items[i])
  THEN items[CHOOSE i \in 1..Len(items) :
               Test(items[i]) /\ \A k \in 1..(i - 1) : ~Test(items[k])]
  ELSE Undef

\* String(getValueByPath(item, key) ?? "") === value, for an item that is an object
KeyMatches(item, key, value) ==
  IsContainer(item) /\ JsString(OrElse(storeGetValueByPath(item, key), Str(<<>>))) = value

\* traverseByPath's walk of an array: the children under segment of the
\* object items, an array child spread into the result
RECURSIVE ChildrenUnder(_, _)
ChildrenUnder(items, segment) ==
  IF items = <<>> THEN <<>>
  ELSE Bind(parseMaybeJSON(Head(items)), LAMBDA parsedItem :
         Bind(IF IsPlainObject(parsedItem) THEN ObjGet(parsedItem, segment) ELSE Undef,
              LAMBDA child :
                IF child.t = "undef" THEN <<>>
                ELSE Bind(parseMaybeJSON(child), LAMBDA parsedChild :
                            IF IsArray(parsedChild) THEN parsedChild.v
                            ELSE <<parsedChild>>)))
       \o ChildrenUnder(Tail(items), segment)

RECURSIVE TraverseFrom(_, _)
TraverseFrom(value, path) ==
  IF path = <<>> THEN value
  ELSE Bind(parseMaybeJSON(value), LAMBDA current :
         IF IsArray(current)
         THEN TraverseFrom(Arr(ChildrenUnder(current.v, Head(path))), Tail(path))
         ELSE IF ~IsContainer(current) THEN Undef
         ELSE TraverseFrom(PropRead(current, Head(path)), Tail(path)))
traverseByPath(value, path) == TraverseFrom(parseMaybeJSON(value), path)

\* the first defined result of Find over the items, or undefined
RECURSIVE FirstFound(_, _, _, _, _)
RECURSIVE FoundInEntries(_, _, _, _, _)
RECURSIVE findNestedTagValueDeep(_, _, _, _, _)
FirstFound(items, targetLabel, nestedKeys, labelKey, valueKey) ==
  IF items = <<>> THEN Undef
  ELSE Bind(findNestedTagValueDeep(Head(items), targetLabel, nestedKeys, labelKey, valueKey),
            LAMBDA found :
              IF found.t # "undef" THEN found
              ELSE FirstFound(Tail(items), targetLabel, nestedKeys, labelKey, valueKey))
\* the tag among the items of nestedArray, or undefined
MatchIn(nestedArray, targetLabel, labelKey) ==
  IF IsArray(nestedArray)
  THEN FindFirst(nestedArray.v, LAMBDA tagItem : KeyMatches(tagItem, labelKey, targetLabel))
  ELSE Undef
FoundInEntries(es, targetLabel, nestedKeys, labelKey, valueKey) ==
  IF es = <<>> THEN Undef
  ELSE Bind(MatchIn(IF \E i \in 1..Len(nestedKeys) : nestedKeys[i] = Head(es)[1]
                    THEN normalizeArray(parseMaybeJSON(Head(es)[2])) ELSE Null,
                    targetLabel, labelKey),
            LAMBDA match :
              IF match.t # "undef"
              THEN Bind(storeGetValueByPath(match, valueKey), LAMBDA valueFound :
                          IF valueFound.t = "undef" THEN Null ELSE valueFound)
              ELSE Bind(findNestedTagValueDeep(Head(es)[2], targetLabel, nestedKeys,
                                               labelKey, valueKey),
                        LAMBDA found :
                          IF found.t # "undef" THEN found
                          ELSE FoundInEntries(Tail(es), targetLabel, nestedKeys,
                                              labelKey, valueKey)))
findNestedTagValueDeep(value, targetLabel, nestedKeys, labelKey, valueKey) ==
  Bind(parseMaybeJSON(value), LAMBDA parsed :
    IF ~IsContainer(parsed) THEN Undef
    ELSE IF IsArray(parsed)
    THEN FirstFound(parsed.v, targetLabel, nestedKeys, labelKey, valueKey)
    ELSE FoundInEntries(parsed.v, targetLabel, nestedKeys, labelKey, valueKey))

\* batchConvertField's map of one record
convertRecord(record, field, mode) ==
  Bind(ObjGet(record, field), LAMBDA value :
    IF value.t \in {"undef", "null"} THEN record
    ELSE IF mode = "parse"
    THEN IF value.t = "str"
         THEN Bind(JsonParse(value.v), LAMBDA parsed :
                     IF parsed.ok /\ IsContainer(parsed.val)
                     THEN ObjPut(record, field, parsed.val) ELSE record)
         ELSE record
    ELSE IF IsContainer(value) THEN ObjPut(record, field, Str(JsonStringify(value)))
    ELSE record)

BatchConvertField(field, mode) ==
  /\ IF ActiveIndex = 0 \/ field = <<>>
     THEN UNCHANGED <<files, history>> /\ lastOp' = Did("batchConvertField", FALSE, FALSE)
     ELSE MapActive("batchConvertField",
                    LAMBDA record : convertRecord(record, field, mode),
                    ActiveFile.keyOrder)
  /\ UNCHANGED <<activeFileId, currentIndex>>
  /\ FilterKept /\ StoreOnly

\* a list without the entries a Set would drop
RECURSIVE Distinct(_, _)
Distinct(xs, seen) ==
  IF xs = <<>> THEN seen
  ELSE Distinct(Tail(xs), IF \E i \in 1..Len(seen) : seen[i] = Head(xs) THEN seen
                          ELSE Append(seen, Head(xs)))

\* next[pair[1]] = pair[2] for every pair in turn
RECURSIVE PutAll(_, _)
PutAll(next, pairs) ==
  IF pairs = <<>> THEN next
  ELSE PutAll(ObjPut(next, Head(pairs)[1], Head(pairs)[2]), Tail(pairs))

\* mode "object", expandAll: the keys of the object values of the plain records
RECURSIVE ExpandedKeys(_, _)
ExpandedKeys(data, trimmedField) ==
  IF data = <<>> THEN <<>>
  ELSE Bind(IF IsPlainObject(Head(data))
            THEN normalizeObject(ObjGet(Head(data), trimmedField)) ELSE Null,
            LAMBDA objectValue :
              IF IsPlainObject(objectValue) THEN ObjKeys(objectValue) ELSE <<>>)
       \o ExpandedKeys(Tail(data), trimmedField)

\* mode "pivot_array": the labels and the values of the items of one array
RECURSIVE PivotPairs(_, _, _)
PivotPairs(items, keyCol, valueCol) ==
  IF items = <<>> THEN <<>>
  ELSE Bind(IF IsContainer(Head(items)) THEN storeGetValueByPath(Head(items), keyCol)
            ELSE Undef,
            LAMBDA label :
              IF label.t \in {"undef", "null"} THEN <<>>
              ELSE << <<JsString(label), storeGetValueByPath(Head(items), valueCol)>> >>)
       \o PivotPairs(Tail(items), keyCol, valueCol)
PivotOf(record, trimmedField, keyCol, valueCol) ==
  Bind(normalizeArray(ObjGet(record, trimmedField)), LAMBDA arrayValue :
    IF IsArray(arrayValue) THEN PivotPairs(arrayValue.v, keyCol, valueCol) ELSE <<>>)
RECURSIVE PivotLabels(_, _, _, _)
PivotLabels(data, trimmedField, keyCol, valueCol) ==
  IF data = <<>> THEN <<>>
  ELSE (IF IsPlainObject(Head(data))
        THEN Bind(PivotOf(Head(data), trimmedField, keyCol, valueCol), LAMBDA pairs :
                    [i \in 1..Len(pairs) |-> pairs[i][1]])
        ELSE <<>>) \o PivotLabels(Tail(data), trimmedField, keyCol, valueCol)
\* lookup[String(label)] = value for every pair
RECURSIVE PivotLookup(_, _)
PivotLookup(pairs, lookup) ==
  IF pairs = <<>> THEN lookup
  ELSE PivotLookup(Tail(pairs), ObjPut(lookup, Head(pairs)[1], Head(pairs)[2]))

\* the columns smartExtract writes
smartExtractColumns(data, trimmedField, config) ==
  IF config.mode = "object"
  THEN IF config.expandAll THEN Distinct(ExpandedKeys(data, trimmedField), <<>>)
       ELSE SelectSeq([i \in 1..Len(config.keys) |-> Trim(config.keys[i])],
                      LAMBDA key : key # <<>>)
  ELSE IF config.mode = "pivot_array"
  THEN Distinct(PivotLabels(data, trimmedField, config.keyCol, config.valueCol), <<>>)
  ELSE IF Trim(config.targetField) # <<>> THEN <<Trim(config.targetField)>> ELSE <<>>

\* ["tags", "labels", "annotations", "attributes"]
DefaultNestedKeys ==
  <<kTags, <<"l", "a", "b", "e", "l", "s">>,
    <<"a", "n", "n", "o", "t", "a", "t", "i", "o", "n", "s">>,
    <<"a", "t", "t", "r", "i", "b", "u", "t", "e", "s">> >>

\* smartExtract's map of one record
smartExtractRecord(record, trimmedField, config, columns) ==
  IF config.mode = "object"
  THEN Bind(normalizeObject(ObjGet(record, trimmedField)), LAMBDA objectValue :
         IF ~IsPlainObject(objectValue) THEN record
         ELSE PutAll(record, [i \in 1..Len(columns) |->
                                <<columns[i],
                                  IF ObjHas(objectValue, columns[i])
                                  THEN ObjGet(objectValue, columns[i]) ELSE Null>>]))
  ELSE IF config.mode = "array_single"
  THEN Bind(Trim(config.targetField), LAMBDA targetField :
         IF targetField = <<>> THEN record
         ELSE Bind(normalizeArray(ObjGet(record, trimmedField)), LAMBDA arrayValue :
                Bind(IF IsArray(arrayValue)
                     THEN FindFirst(arrayValue.v,
                            LAMBDA item : KeyMatches(item, config.matchKey, config.matchValue))
                     ELSE Undef,
                     LAMBDA matchedItem :
                       IF matchedItem.t = "undef" THEN ObjPut(record, targetField, Null)
                       ELSE ObjPut(record, targetField,
                                   OrElse(storeGetValueByPath(matchedItem, config.extractKey),
                                          Null)))))
  ELSE IF config.mode = "pivot_array"
  THEN Bind(PivotLookup(PivotOf(record, trimmedField, config.keyCol, config.valueCol),
                        Obj(<<>>)),
            LAMBDA lookup :
              PutAll(record, [i \in 1..Len(columns) |->
                                <<columns[i], OrElse(ObjGet(lookup, columns[i]), Null)>>]))
  ELSE Bind(Trim(config.targetField), LAMBDA targetField :
         IF targetField = <<>> THEN record
         ELSE ObjPut(record, targetField,
                     OrElse(findNestedTagValueDeep(
                              parseMaybeJSON(ObjGet(record, trimmedField)), config.label,
                              IF config.nestedKeys.t = "undef" THEN DefaultNestedKeys
                              ELSE config.nestedKeys.v,
                              IF config.labelKey.t = "undef" THEN kLabel ELSE config.labelKey.v,
                              IF config.valueKey.t = "undef" THEN kValue ELSE config.valueKey.v),
                            Null)))

\* the key order with the columns it did not have at its end
OrderWith(keyOrder, columns) ==
  IF keyOrder.t = "undef" \/ Len(keyOrder.v) = 0 \/ Len(columns) = 0 THEN keyOrder
  ELSE KeyList(keyOrder.v \o SelectSeq(columns, LAMBDA col :
                                         \A i \in 1..Len(keyOrder.v) : keyOrder.v[i] # col))

\* smartExtract past its early returns
smartExtractMap(trimmedField, config, columns) ==
  MapActive("smartExtract",
            LAMBDA record : smartExtractRecord(record, trimmedField, config, columns),
            OrderWith(ActiveFile.keyOrder, columns))

SmartExtract(field, config) ==
  /\ IF Trim(field) = <<>> \/ ActiveIndex = 0
     THEN UNCHANGED <<files, history>> /\ lastOp' = Did("smartExtract", FALSE, FALSE)
     ELSE smartExtractMap(Trim(field), config,
                          smartExtractColumns(ActiveFile.data, Trim(field), config))
  /\ UNCHANGED <<activeFileId, currentIndex>>
  /\ FilterKept /\ StoreOnly

\* extractByPath's value for the output field, from the value the path led to
\* after the filter
extractedFrom(current, targetKey) ==
  IF targetKey # <<>>
  THEN IF IsArray(current)
       THEN Bind(SelectSeq([i \in 1..Len(current.v) |->
                              Bind(parseMaybeJSON(current.v[i]), LAMBDA parsed :
                                     IF IsPlainObject(parsed)
                                     THEN storeGetValueByPath(parsed, targetKey)
                                     ELSE Undef)],
                           LAMBDA value : value.t # "undef"),
                 LAMBDA values : IF Len(values) > 0 THEN Arr(values) ELSE Null)
       ELSE IF IsContainer(current) THEN storeGetValueByPath(current, targetKey)
       ELSE Null
  ELSE OrElse(current, Null)

\* the item of the walked array that config.filter keeps
filteredFrom(walked, config) ==
  IF config.filter.t # "undef" /\ IsArray(walked)
  THEN OrElse(FindFirst(walked.v,
                LAMBDA item : Bind(parseMaybeJSON(item), LAMBDA parsed :
                                /\ IsPlainObject(parsed)
                                /\ KeyMatches(parsed, config.filter.key,
                                              config.filter.value))), Null)
  ELSE walked

\* extractByPath's map of one record
extractRecord(record, trimmedField, outputField, config) ==
  ObjPut(record, outputField,
         OrElse(extractedFrom(filteredFrom(traverseByPath(
                                             storeGetValueByPath(record, trimmedField),
                                             config.path), config),
                              IF config.target.t = "undef" THEN <<>>
                              ELSE Trim(config.target.v)),
                Null))

ExtractByPath(field, config) ==
  /\ IF Trim(field) = <<>> \/ Trim(config.outputField) = <<>> \/ ActiveIndex = 0
     THEN UNCHANGED <<files, history>> /\ lastOp' = Did("extractByPath", FALSE, FALSE)
     ELSE MapActive("extractByPath",
                    LAMBDA record : extractRecord(record, Trim(field),
                                                  Trim(config.outputField), config),
                    OrderWith(ActiveFile.keyOrder, <<Trim(config.outputField)>>))
  /\ UNCHANGED <<activeFileId, currentIndex>>
  /\ FilterKept /\ StoreOnly

-----------------------------------------------------------------------------
(* SpecShelf: two files under the recorded handlers, undo and redo *)

\* {a: "x", b: [{a: "x", b: 2, t: [{a: "x", b: 3}]}]}
ShelfDataset ==
  << Obj(<< <<kA, Str(sX)>>,
            <<kB, Arr(<< Obj(<< <<kA, Str(sX)>>, <<kB, Num(2)>>,
                                <<kT, Arr(<< Obj(<< <<kA, Str(sX)>>,
                                                    <<kB, Num(3)>> >>) >>)>> >>) >>)>> >>) >>
\* the first file as it is added, with a key order or without, and the second
ShelfFirst == {File("f1", ShelfDataset, o) : o \in {Undef, KeyList(<<kA, kB>>)}}
ShelfSecond == File("f2", << Obj(<< <<kA, Str(sY)>> >>) >>, Undef)

ConvertModes == {"parse", "stringify"}
SmartConfigs ==
  {[mode |-> "object", keys |-> <<kA, <<" ">> >>, expandAll |-> FALSE],
   [mode |-> "object", keys |-> <<>>, expandAll |-> TRUE],
   [mode |-> "array_single", matchKey |-> kA, matchValue |-> sX, extractKey |-> kB,
    targetField |-> kC],
   [mode |-> "pivot_array", keyCol |-> kA, valueCol |-> kB],
   [mode |-> "nested_tags", label |-> sX, targetField |-> kC,
    nestedKeys |-> KeyList(<<kT>>), labelKey |-> Str(kA), valueKey |-> Str(kB)]}
PathConfigs ==
  {[path |-> <<kA>>, filter |-> Undef, target |-> Undef, outputField |-> kC],
   [path |-> <<>>, filter |-> [t |-> "filter", key |-> kA, value |-> sX],
    target |-> Str(kB), outputField |-> kC]}

\* a recorded handler may run while the pasts of the files together have room
ShelfHasRoom == Len(history["f1"].past) + Len(history["f2"].past) < MaxPast

\* the field handlers run on the first file as it was added; the replacements,
\* the commit, undo and redo run on it in any state. The first file stays the
\* active one, and the second is replaced through replaceFileData.
OnFirst == ActiveIndex # 0 /\ ActiveFile \in ShelfFirst

NextShelf ==
  \/ \E f \in ShelfFirst : files = <<>> /\ AddFile(f)
  \/ (Len(files) = 1 /\ AddFile(ShelfSecond))
  \/ (ShelfHasRoom /\ ReplaceActiveFileData(NewDataset, TRUE))
  \/ \E id \in OpenIds : ShelfHasRoom /\ ReplaceFileData(id, NewDataset)
  \/ (ShelfHasRoom /\ OnFirst /\ ReorderKeys(<<kB, kA>>))
  \/ (ShelfHasRoom /\ OnFirst /\ BatchRenameField(kA, kC))
  \/ (ShelfHasRoom /\ OnFirst /\ BatchDeleteField(kA))
  \/ (ShelfHasRoom /\ OnFirst /\ StoreNestFields(<<kA>>, kN))
  \/ \E mode \in ConvertModes : ShelfHasRoom /\ OnFirst /\ BatchConvertField(kB, mode)
  \/ \E config \in SmartConfigs : ShelfHasRoom /\ OnFirst /\ SmartExtract(kB, config)
  \/ \E config \in PathConfigs : ShelfHasRoom /\ OnFirst /\ ExtractByPath(kB, config)
  \/ SetSearchQuery(sX)
  \/ (ShelfHasRoom /\ CommitFilterToData)
  \/ Undo
  \/ Redo

SpecShelf == InitView /\ [][NextShelf]_vars

\* the step pushed a snapshot on the past of file id and is no redo
PushedOn(id) == Len(history'[id].past) > Len(history[id].past) /\ lastOp'.op # "redo"

\* the file with the given id, or no file
FileOf(fs, id) == IF FindFile(fs, id) = 0 THEN File(NoFile, <<>>, Undef) ELSE fs[FindFile(fs, id)]
OthersUntouched(id) ==
  \A o \in FileIds \ {id} : history'[o] = history[o] /\ FileOf(files', o) = FileOf(files, o)

\* C30: a recorded handler pushes a snapshot of its file; a step that pushes a
\* snapshot on a file leaves that file's future empty and the other files and
\* their histories as they were; a future grows only by an undo of its file;
\* and a redo that succeeds takes the last entry of its file's future and
\* leaves the other files and their histories as they were.
C30_RecordedClearsFuture ==
  [][\A id \in FileIds :
       /\ (lastOp'.recorded /\ id = activeFileId) => PushedOn(id)
       /\ PushedOn(id) =>
            /\ history'[id].future = <<>>
            /\ history'[id].past = Append(history[id].past, HistoryEntry(FileOf(files, id)))
            /\ OthersUntouched(id)
       /\ Len(history'[id].future) > Len(history[id].future) =>
            lastOp'.op = "undo" /\ id = activeFileId
       /\ (lastOp'.op = "redo" /\ id = activeFileId) =>
            /\ history[id].future # <<>>
            /\ FileOf(files', id).data = history[id].future[Len(history[id].future)].data
            /\ OthersUntouched(id)]_vars

\* f1 was changed and undone, then f2 was changed: f1 can still be redone
C30_Witness ==
  /\ Len(history["f1"].future) = 1 /\ history["f1"].past = <<>>
  /\ Len(history["f2"].past) = 1 /\ history["f2"].future = <<>>
  /\ FileOf(files, "f1") \in ShelfFirst

=============================================================================
